---- MODULE Spec2Model ----
(***************************************************************************)
(* Child-side runtime of decthings/model-js: the RPC dispatcher            *)
(* (processMessage and the read loop), the model lifecycle handlers        *)
(* of the rpc table, the TrainTracker and the DataLoader with its          *)
(* pending-request map.                                                    *)
(*                                                                         *)
(* One action is one synchronous turn of the JavaScript event loop: the    *)
(* read loop decoding a frame and running the handler up to its first      *)
(* await, the continuation of a handler after an await, or a call the      *)
(* user's model code makes into the runtime.  The settling of a user       *)
(* callback and the handler continuation that follows it are one action:   *)
(* whatever runs between the two is equivalent to running before the       *)
(* callback settles.                                                       *)
(***************************************************************************)
EXTENDS Integers, Sequences, FiniteSets, TLC

\* ---------------------------------------------------------------- bounds

\* Commands the host sends in one run.
MaxCmds == 4
\* Commands the host sends in one run of the closed-operation specification.
MaxCloseCmds == 3
\* Largest elementCount ("amount" of a Param) the host announces.
MaxSize == 2
\* next() calls the user's code makes on one loader.
MaxNext == 2
\* onCancel() registrations the user's train callback makes on one tracker.
MaxCb == 2
\* provide()/provideAll() calls the user's code makes on one state provider.
MaxProvide == 2
\* Longest list the packing specification passes to provideAll().
MaxItems == 3
\* Outputs the user's evaluate returns, segments of one output, and bytes of
\* one segment.
MaxOut == 2
\* progress()/metrics() calls the user's train code makes on one tracker, and
\* the longest list it passes to metrics().
MaxReport == 3
\* shuffle()/shuffleInGroup() calls the user's code makes in one run.
MaxShuffle == 1

\* The most keys one state provider accepts (part_003:203).
KeyLimit == 100
\* 1024 ** 3, the most bytes of one key and the bound of the packing loop
\* (part_003:206, 219).
ByteLimit == 1073741824

ModelIds == {"m1"}
SessionIds == {"s1", "s2"}

\* ---------------------------------------------------------------- state

VARIABLES
    alive,                \* the node process is running
    exportedModel,        \* part_002:11   "undefined" | "model"
    ops,                  \* one record per command decoded, in decoding order
    instantiatedModels,   \* part_002:12   id -> index of the instantiate op whose `stored` is mapped, 0: absent
    trainingSessions,     \* part_002:36   id -> index of the train op whose tracker is mapped, 0: absent
    outbound,             \* frames written to the socket, in write order
    unhandled,            \* number of processMessage promises that rejected (nobody awaits them)
    waiting,              \* part_003:103  request id -> index into calls, 0: absent
    dataRequestIdCounter, \* part_003:104
    calls,                \* one record per next() call that reached the loader, in call order
    fired                 \* onCancel callbacks invoked, in invocation order: <<op, cb>>

vars == <<alive, exportedModel, ops, instantiatedModels, trainingSessions, outbound,
          unhandled, waiting, dataRequestIdCounter, calls, fired>>

dataVars == <<waiting, dataRequestIdCounter, calls>>

\* A value JavaScript calls undefined.
Undefined == "undefined"

\* TrainTracker._onCancel as the constructor leaves it (part_001:8): the field is
\* declared without an initialiser, so it holds undefined, not an empty array.
NewOnCancel == [defined |-> FALSE, list |-> <<>>]

\* The handler's return value null (part_002:60, 144, 187).
Null == "null"

\* ------------------------------------------------------- the op records

\* The state one command's handler keeps in its closure:
\*   pc           "awaitInst": suspended at `await instantiatedModel.instantiated`
\*                "user": suspended at the await of the user's callback
\*                "done": the handler has returned (its promise is settled)
\*                "hung": the handler threw where nothing settles its promise
\*   complete     the `complete.complete` flag shared with the op's loaders/provider
\*   disposed, stored, promise, hook, hookCalls
\*                callInstantiateModel: the `disposed` local, what stored.instantiated
\*                holds, the state of instantiatedPromise, whether the returned model
\*                object has a dispose hook, and how often that hook was invoked
\*   hookThrows   the dispose hook of the returned model object throws when called
\*   awaited, awaitedKind
\*                the stored object a lookup returned (index of its instantiate op)
\*                and what its `instantiated` field held at that moment
\*   invoked, hooksSeen
\*                the user callback of this op was called, and how often the dispose
\*                hook of its model object had run by then
\*   cancelled, trkComplete, onCancel
\*                the TrainTracker of a train op
\*   cbThrew      onCancel() calls of the user's code that threw; the n-th call
\*                made on a tracker passes callback n
\*   cbSeen       callCancelTrain: the onCancel() calls the user's code had made on
\*                the tracker it found
\*   reports      one record per progress()/metrics() call made on the tracker
\*   ret          evaluate: the list of outputs the user's callback returned
\*   module       initialize: what loading the module gave
\*   size, position, setResult
\*                the op's DataLoader: #inner.size, #position, and the outcome
\*                ("ok" | "error") of the last setPosition call
\*   providedNames, provides, flushed
\*                the op's StateProvider: the providedNames set of its closure, one
\*                record per provide()/provideAll() call made on it, and how many
\*                of its provideStateData frames the socket has flushed
NewOp(method, hasId, mid, sid, size) ==
    [method |-> method, hasId |-> hasId, mid |-> mid, sid |-> sid,
     pc |-> "done", result |-> "none", complete |-> FALSE,
     disposed |-> FALSE, stored |-> "none", promise |-> "none",
     hook |-> FALSE, hookCalls |-> 0, hookThrows |-> FALSE,
     awaited |-> 0, awaitedKind |-> "none",
     invoked |-> FALSE, hooksSeen |-> 0,
     cancelled |-> FALSE, trkComplete |-> FALSE, onCancel |-> NewOnCancel, cbThrew |-> 0,
     cbSeen |-> 0, reports |-> <<>>, ret |-> <<>>, module |-> "none",
     size |-> size, position |-> 0, setResult |-> "none",
     providedNames |-> {}, provides |-> <<>>, flushed |-> 0]

OpIds == 1..Len(ops)

\* ------------------------------------------------------------ dispatcher

\* The read loop awaiting processMessage: no frame is decoded while a handler is
\* in flight.
LoopAwaitsHandler == alive /\ \A i \in 1..Len(ops) : ops[i].pc = "done"

\* The read loop does not await processMessage (part_002:337): it is ready for
\* the next frame whatever the handlers in flight are doing.
LoopFree == alive

\* The tail of processMessage (part_002:277-303) for command i once the handler's
\* response is there, `out` being the frames written so far: no reply without an
\* id; `_response.result` throws on a null response, which rejects the promise
\* of processMessage; nobody awaits that promise, and node either logs the
\* unhandled rejection or ends the process, depending on its version and flags.
Reply(out, i, hasId, response) ==
    IF ~hasId
    THEN /\ outbound' = out
         /\ unhandled' = unhandled
         /\ alive' = alive
    ELSE IF response = Null
    THEN /\ outbound' = out
         /\ unhandled' = unhandled + 1
         /\ alive' \in BOOLEAN
    ELSE /\ outbound' = Append(out, [kind |-> "reply", id |-> i, result |-> response])
         /\ unhandled' = unhandled
         /\ alive' = alive

\* An exception thrown synchronously by a handler inside processMessage
\* (part_002:275): the promise of processMessage rejects, nothing is written.
Throw(out) ==
    /\ outbound' = out
    /\ unhandled' = unhandled + 1
    /\ alive' \in BOOLEAN

NoReply ==
    /\ outbound' = outbound
    /\ unhandled' = unhandled
    /\ alive' = alive

\* ------------------------------------------------------------ frame layout

\* A byte sequence of n elements, each a number 0..255, is a Buffer of n bytes;
\* offsets count from 0 as in the source, so offset p is element p + 1.

\* Buffer.alloc(size): size zero bytes.
Alloc(size) == [b \in 1..size |-> 0]

\* The four bytes of v, most significant first.
BytesBE(v) == <<(v \div 16777216) % 256, (v \div 65536) % 256, (v \div 256) % 256, v % 256>>

\* el.copy(buf, offset): the bytes of el written into buf from offset on.
Copy(buf, el, offset) ==
    [b \in DOMAIN buf |->
        IF b > offset /\ b <= offset + Len(el) THEN el[b - offset] ELSE buf[b]]

\* WriteUInt32BE writing the least significant byte first.
WriteUInt32LE(buf, v, offset) ==
    Copy(buf, <<v % 256, (v \div 256) % 256, (v \div 65536) % 256, (v \div 16777216) % 256>>,
         offset)

\* buf.writeUInt32BE(v, offset).
WriteUInt32BE(buf, v, offset) == Copy(buf, BytesBE(v), offset)

\* The argsTotalSize loop (part_002:285-288, 365-368).
RECURSIVE ArgsTotalSize(_)
ArgsTotalSize(toSend) ==
    IF toSend = <<>> THEN 0 ELSE Len(Head(toSend)) + ArgsTotalSize(Tail(toSend))

\* The second forEach (part_002:295-299, 375-379) from element x on, `position`
\* being where it stands, and the terminator written after it (part_002:301,
\* 381).
RECURSIVE WriteSegments(_, _, _, _)
WriteSegments(buf, toSend, x, position) ==
    IF x > Len(toSend)
    THEN Copy(buf, <<0>>, position)
    ELSE WriteSegments(Copy(WriteUInt32BE(buf, Len(toSend[x]), position + 4),
                            toSend[x], position + 8),
                       toSend, x + 1, position + 8 + Len(toSend[x]))

\* finalBuffer as processMessage and sendEventToParent build it from toSend
\* (part_002:283-303, 362-384); the two functions repeat the same statements.
FinalBuffer(toSend) ==
    LET alloc == Alloc(6 + Len(toSend) * 8 + ArgsTotalSize(toSend))
        head == WriteUInt32BE(Copy(alloc, <<0>>, 0), Len(toSend) - 1, 1)
    IN  WriteSegments(head, toSend, 1, 5)

\* sendMessageToParent(finalBuffer) for the segments toSend of one reply or
\* event: the bytes are recorded next to the segments they were built from.
SendFrame(toSend) ==
    /\ alive
    /\ outbound = <<>>
    /\ outbound' = <<[kind |-> "bytes", toSend |-> toSend, bytes |-> FinalBuffer(toSend)]>>
    /\ UNCHANGED <<alive, exportedModel, ops, instantiatedModels, trainingSessions,
                   unhandled, dataVars, fired>>

\* The most commands any specification lets the host send: those of a free
\* run, and one more for the scenarios that fix their first commands.
MaxOps == MaxCmds + 1

CanReceive == LoopFree /\ Len(ops) < MaxOps

\* ------------------------------------------------------------ initialize

\* What `require(args.path).default` gives: an object, an exception thrown by
\* the load, no default export, or a default export that is null, a function or
\* a number.
Modules == {"object", "throws", "undefined", "null", "function", "number"}

\* JavaScript's typeof for the values in Modules.
TypeOf(module) == IF module = "null" THEN "object" ELSE module

\* LoadFails testing the type only.
LoadFailsTypeofOnly(module) ==
    module = "throws" \/ module = "undefined" \/ TypeOf(module) # "object"

\* The try block of rpc.initialize (part_002:44-54) ends in the catch.
LoadFails(module) ==
    \/ module = "throws"
    \/ module = "undefined"
    \/ module = "null" \/ TypeOf(module) # "object"

\* rpc.initialize (part_002:43-61): the event is sent from inside the handler,
\* with the error if the load failed; the handler returns null.
Initialize(hasId, module) ==
    /\ CanReceive
    /\ LET i == Len(ops) + 1
           loaded == ~LoadFails(module)
           ev == [kind |-> "modelSessionInitialized", id |-> i,
                  result |-> IF loaded THEN "ok" ELSE "exception"]
       IN  /\ ops' = Append(ops, [NewOp("initialize", hasId, "none", "none", 0) EXCEPT
                                     !.module = module])
           /\ exportedModel' = IF loaded THEN "model" ELSE exportedModel
           /\ Reply(Append(outbound, ev), i, hasId, Null)
    /\ UNCHANGED <<instantiatedModels, trainingSessions, dataVars, fired>>

\* rpc.initialize for a module that loads, or one whose load throws.
CallInitialize(hasId, loaded) == Initialize(hasId, IF loaded THEN "object" ELSE "throws")

\* ------------------------------------------------- instantiate / dispose

\* rpc.callInstantiateModel up to the await of the user's callback: the handle is
\* put in the map first; with no module loaded `exportedModel.instantiateModel`
\* throws inside the try and the catch removes the id from the map again.
CallInstantiateModel(hasId, mid, size) ==
    /\ CanReceive
    /\ LET i == Len(ops) + 1
           op == NewOp("instantiate", hasId, mid, "none", size)
       IN  IF exportedModel = "model"
           THEN /\ ops' = Append(ops, [op EXCEPT !.pc = "user", !.stored = "promise",
                                                  !.promise = "pending", !.invoked = TRUE])
                /\ instantiatedModels' = [instantiatedModels EXCEPT ![mid] = i]
                /\ NoReply
           ELSE /\ ops' = Append(ops, [op EXCEPT !.stored = "promise", !.promise = "null",
                                                  !.complete = TRUE, !.result = "exception"])
                /\ instantiatedModels' = [instantiatedModels EXCEPT ![mid] = 0]
                /\ Reply(outbound, i, hasId, "exception")
    /\ UNCHANGED <<exportedModel, trainingSessions, dataVars, fired>>

\* ResolveNull leaving the promise as it is.
ResolveNullDropped(promise) == promise

\* instantiatedPromise after `resolveInstantiatedPromise(null)` (part_002:96, 123):
\* a pending promise is resolved with null, a settled one stays as it is.
ResolveNull(promise) == IF promise = "pending" THEN "null" ELSE promise

\* What `instantiated.dispose && instantiated.dispose()` does to the model object
\* of instantiate op k (part_002:128, 132).
RunHook(o) == [o EXCEPT !.hookCalls = IF o.hook THEN @ + 1 ELSE @]

\* The closure stored.dispose installed at part_002:131-133, once Ready; a hook
\* that throws throws out of the closure.
ReadyDispose(k, hasId, mid) ==
    /\ ops' = Append([ops EXCEPT ![k] = RunHook(@)],
                     [NewOp("dispose", hasId, mid, "none", 0) EXCEPT
                         !.awaited = k, !.awaitedKind = "model",
                         !.result = IF ops[k].hookThrows THEN "hookError" ELSE @])
    /\ instantiatedModels' = instantiatedModels

\* PendingDispose without `disposed = true`: the completing instantiation no
\* longer learns that disposal was requested.
PendingDisposeNoFlag(k, hasId, mid) ==
    /\ ops' = Append([ops EXCEPT ![k] = [@ EXCEPT !.promise = ResolveNull(@)]],
                     [NewOp("dispose", hasId, mid, "none", 0) EXCEPT
                         !.awaited = k, !.awaitedKind = "promise"])
    /\ instantiatedModels' = [instantiatedModels EXCEPT ![mid] = 0]

\* The closure stored.dispose installed at part_002:93-97, while Pending.
PendingDispose(k, hasId, mid) ==
    /\ ops' = Append([ops EXCEPT ![k] = [@ EXCEPT !.disposed = TRUE,
                                                  !.promise = ResolveNull(@)]],
                     [NewOp("dispose", hasId, mid, "none", 0) EXCEPT
                         !.awaited = k, !.awaitedKind = "promise"])
    /\ instantiatedModels' = [instantiatedModels EXCEPT ![mid] = 0]

\* The rest of rpc.callInstantiateModel, run when the user's callback settles:
\* "fail" is a throw, a rejection or a return value that is no object; "model",
\* "modelNoHook" and "modelBadHook" are a model object with a dispose hook,
\* without one, and with one that throws.  The disposal of a handle disposed while
\* pending (part_002:127-128) runs after the try/catch, inside the async executor
\* of the handler's promise: a hook that throws there rejects the executor's own
\* promise, which nobody holds, and `resolve` is never reached.
InstantiateSettle(i, outcome) ==
    /\ alive
    /\ i \in OpIds
    /\ ops[i].method = "instantiate" /\ ops[i].pc = "user"
    /\ LET o == [ops[i] EXCEPT !.hookThrows = outcome = "modelBadHook"]
           hasHook == outcome \in {"model", "modelBadHook"}
       IN  IF outcome = "fail"
           THEN /\ ops' = [ops EXCEPT ![i] = [o EXCEPT !.pc = "done", !.complete = TRUE,
                               !.result = "exception",
                               !.promise = ResolveNull(@)]]
                /\ instantiatedModels' = [instantiatedModels EXCEPT ![o.mid] = 0]
                /\ Reply(outbound, i, o.hasId, "exception")
           ELSE IF o.disposed /\ o.hookThrows
           THEN /\ ops' = [ops EXCEPT ![i] = RunHook([o EXCEPT !.pc = "hung",
                               !.complete = TRUE, !.result = "hookError", !.hook = hasHook])]
                /\ instantiatedModels' = instantiatedModels
                /\ Throw(outbound)
           ELSE /\ IF o.disposed
                   THEN /\ ops' = [ops EXCEPT ![i] = RunHook([o EXCEPT !.pc = "done",
                                       !.complete = TRUE, !.result = "ok", !.hook = hasHook])]
                   ELSE /\ ops' = [ops EXCEPT ![i] = [o EXCEPT !.pc = "done",
                                       !.complete = TRUE, !.result = "ok", !.hook = hasHook,
                                       !.stored = "model", !.promise = "model"]]
                /\ instantiatedModels' = instantiatedModels
                /\ Reply(outbound, i, o.hasId, "ok")
    /\ UNCHANGED <<exportedModel, trainingSessions, dataVars, fired>>

\* rpc.callDisposeInstantiatedModel: call whatever dispose closure the mapped
\* handle holds, return null; what the closure throws is thrown by the handler.
CallDisposeInstantiatedModel(hasId, mid) ==
    /\ CanReceive
    /\ LET i == Len(ops) + 1
           k == instantiatedModels[mid]
       IN  /\ IF k = 0
              THEN /\ ops' = Append(ops, NewOp("dispose", hasId, mid, "none", 0))
                   /\ instantiatedModels' = instantiatedModels
              ELSE IF ops[k].stored = "model"
              THEN ReadyDispose(k, hasId, mid)
              ELSE PendingDispose(k, hasId, mid)
           /\ IF k # 0 /\ ops[k].stored = "model" /\ ops[k].hookThrows
              THEN Throw(outbound)
              ELSE Reply(outbound, i, hasId, Null)
    /\ UNCHANGED <<exportedModel, trainingSessions, dataVars, fired>>

\* ------------------------------------------- train / evaluate / get-state

\* AwaitedValue yielding the model object the instantiation callback returned
\* even when the handle was disposed while the callback was pending.
AwaitedValueIgnoringDispose(o) ==
    IF o.awaitedKind = "model" THEN "model"
    ELSE IF ops[o.awaited].pc # "done" THEN "pending"
    ELSE IF ops[o.awaited].result = "ok" THEN "model"
    ELSE "null"

\* What `await instantiatedModel.instantiated` (part_002:155, 194, 248) yields for
\* op o: the model object if the field held one when it was read, else the value
\* instantiatedPromise resolves to ("pending" while it has not).
AwaitedValue(o) ==
    IF o.awaitedKind = "model" THEN "model" ELSE ops[o.awaited].promise

\* Settled without the wait: the handler goes on whatever the promise's state.
SettledAlways(o) == TRUE

\* Whether `await instantiatedModel.instantiated` (part_002:155, 194, 248) of op o
\* can continue: the field held a model object, or the promise has settled.
Settled(o) == AwaitedValue(o) # "pending"

\* The lookup that opens callTrain, callEvaluate and callGetModelState: the op
\* record after `instantiatedModels.get(id)`, suspended at the await if the id is
\* mapped, done with instantiated_model_not_found if it is not.
Lookup(op) ==
    LET k == instantiatedModels[op.mid]
    IN  IF k = 0
        THEN [op EXCEPT !.result = "instantiated_model_not_found"]
        ELSE [op EXCEPT !.pc = "awaitInst", !.awaited = k, !.awaitedKind = ops[k].stored]

\* TrainReturns leaving the session map as it is.
TrainReturnsKeeping(sid) == trainingSessions

\* The session map after the `trainingSessions.delete(args.trainingSessionId)`
\* callTrain makes on every return (part_002:152, 157, 174, 177).
TrainReturns(sid) == [trainingSessions EXCEPT ![sid] = 0]

\* CancelUnmaps leaving the session map as it is.
CancelKeeps(sid) == trainingSessions

\* The session map after the `trainingSessions.delete(args.trainingSessionId)` of
\* callCancelTrain (part_002:183).
CancelUnmaps(sid) == [trainingSessions EXCEPT ![sid] = 0]

\* rpc.callTrain up to `await instantiatedModel.instantiated`: the tracker is
\* mapped under the session id before the lookup.
CallTrain(hasId, mid, sid, size) ==
    /\ CanReceive
    /\ LET i == Len(ops) + 1
           op == Lookup(NewOp("train", hasId, mid, sid, size))
       IN  /\ ops' = Append(ops, op)
           /\ IF op.pc = "done"
              THEN /\ trainingSessions' = TrainReturns(sid)
                   /\ Reply(outbound, i, hasId, op.result)
              ELSE /\ trainingSessions' = [trainingSessions EXCEPT ![sid] = i]
                   /\ NoReply
    /\ UNCHANGED <<exportedModel, instantiatedModels, dataVars, fired>>

\* The op record once the user's callback has been called on the model object
\* of instantiate op o.awaited.
Invoke(o) == [o EXCEPT !.pc = "user", !.invoked = TRUE,
                       !.hooksSeen = ops[o.awaited].hookCalls]

\* callTrain from the await of the handle to the await of the user's train.
TrainResume(i) ==
    /\ alive
    /\ i \in OpIds
    /\ ops[i].method = "train" /\ ops[i].pc = "awaitInst"
    /\ Settled(ops[i])
    /\ IF AwaitedValue(ops[i]) = "null"
       THEN /\ ops' = [ops EXCEPT ![i] = [@ EXCEPT !.pc = "done",
                                             !.result = "instantiated_model_not_found"]]
            /\ trainingSessions' = TrainReturns(ops[i].sid)
            /\ Reply(outbound, i, ops[i].hasId, "instantiated_model_not_found")
       ELSE /\ ops' = [ops EXCEPT ![i] = Invoke(@)]
            /\ trainingSessions' = trainingSessions
            /\ NoReply
    /\ UNCHANGED <<exportedModel, instantiatedModels, dataVars, fired>>

\* The rest of callTrain, run when the user's train callback settles.
TrainSettle(i, ok) ==
    /\ alive
    /\ i \in OpIds
    /\ ops[i].method = "train" /\ ops[i].pc = "user"
    /\ LET res == IF ok THEN "ok" ELSE "exception"
       IN  /\ ops' = [ops EXCEPT ![i] = [@ EXCEPT !.pc = "done", !.result = res,
                                             !.trkComplete = TRUE, !.complete = TRUE]]
           /\ trainingSessions' = TrainReturns(ops[i].sid)
           /\ Reply(outbound, i, ops[i].hasId, res)
    /\ UNCHANGED <<exportedModel, instantiatedModels, dataVars, fired>>

\* TrainTracker.onCancel called by the user's train code: push on _onCancel,
\* which throws a TypeError while the field is undefined.
UserOnCancel(i) ==
    /\ alive
    /\ i \in OpIds
    /\ ops[i].method = "train" /\ ops[i].invoked
    /\ LET o == ops[i]
       IN  /\ Len(o.onCancel.list) + o.cbThrew < MaxCb
           /\ IF ~o.onCancel.defined
              THEN ops' = [ops EXCEPT ![i] = [o EXCEPT !.cbThrew = @ + 1]]
              ELSE ops' = [ops EXCEPT ![i] = [o EXCEPT !.onCancel.list =
                                                 Append(@, Len(@) + o.cbThrew + 1)]]
    /\ UNCHANGED <<alive, exportedModel, instantiatedModels, trainingSessions, outbound,
                   unhandled, dataVars, fired>>

\* ReportClosed for a tracker that only a successful train completes.
ReportClosedOnSuccess(o) == o.trkComplete /\ o.result = "ok"

\* The guard `this._complete` of progress() and metrics() (part_001:16, 26).
ReportClosed(o) == o.trkComplete

\* A call of progress() (n = 1, a number) or metrics() (a well-formed list of n
\* metrics) on the tracker of train op i: it throws once the tracker is
\* complete, returns without an event for an empty list (part_001:32-34), and
\* sends one event otherwise (part_001:22, 56-63).  The call is recorded with
\* whether the handler of the op had returned by then (late), its outcome and
\* the number of events it sent.
Report(i, api, n) ==
    LET o == ops[i]
        status == IF ReportClosed(o) THEN "AlreadyCompleted" ELSE "ok"
        event == [kind |-> IF api = "progress" THEN "trainingProgress" ELSE "trainingMetrics",
                  trainingSessionId |-> o.sid, op |-> i, n |-> n]
        sends == status = "ok" /\ n > 0
        call == [api |-> api, n |-> n, late |-> o.pc = "done", cancelled |-> o.cancelled,
                 status |-> status, events |-> IF sends THEN 1 ELSE 0]
    IN  /\ ops' = [ops EXCEPT ![i] = [o EXCEPT !.reports = Append(@, call)]]
        /\ outbound' = IF sends THEN Append(outbound, event) ELSE outbound

\* The user's train code calls tracker.progress(p) with a number
\* (part_001:15-23); it may do so after the operation has returned.
UserProgress(i) ==
    /\ alive
    /\ i \in OpIds
    /\ ops[i].method = "train" /\ ops[i].invoked
    /\ Len(ops[i].reports) < MaxReport
    /\ Report(i, "progress", 1)
    /\ UNCHANGED <<alive, exportedModel, instantiatedModels, trainingSessions, unhandled,
                   dataVars, fired>>

\* The user's train code calls tracker.metrics(list) with a well-formed list of
\* n metrics (part_001:25-64).
UserMetrics(i, n) ==
    /\ alive
    /\ i \in OpIds
    /\ ops[i].method = "train" /\ ops[i].invoked
    /\ Len(ops[i].reports) < MaxReport
    /\ Report(i, "metrics", n)
    /\ UNCHANGED <<alive, exportedModel, instantiatedModels, trainingSessions, unhandled,
                   dataVars, fired>>

\* The invocations `tracker._onCancel.forEach((cancel) => cancel())` makes for the
\* tracker of op t.
FireAll(t, list) == [c \in 1..Len(list) |-> <<t, list[c]>>]

\* Tracker falling back to some mapped tracker when sid is not mapped.
TrackerOrAny(sid) ==
    IF trainingSessions[sid] # 0 THEN trainingSessions[sid]
    ELSE IF \E x \in SessionIds : trainingSessions[x] # 0
    THEN trainingSessions[CHOOSE x \in SessionIds : trainingSessions[x] # 0]
    ELSE 0

\* `trainingSessions.get(args.trainingSessionId)` (part_002:181): the train op
\* whose tracker is mapped under sid, 0 if there is none.
Tracker(sid) == trainingSessions[sid]

\* rpc.callCancelTrain: unmap the tracker, set cancelled, fire the callbacks
\* (forEach on an undefined _onCancel throws), return null.
CallCancelTrain(hasId, sid) ==
    /\ CanReceive
    /\ LET i == Len(ops) + 1
           t == Tracker(sid)
           new == NewOp("cancel", hasId, "none", sid, 0)
           op == IF t = 0 THEN new
                 ELSE [new EXCEPT !.cbSeen = Len(ops[t].onCancel.list) + ops[t].cbThrew]
       IN  IF t = 0
           THEN /\ ops' = Append(ops, op)
                /\ trainingSessions' = trainingSessions
                /\ fired' = fired
                /\ Reply(outbound, i, hasId, Null)
           ELSE /\ trainingSessions' = CancelUnmaps(sid)
                /\ IF ~ops[t].onCancel.defined
                   THEN /\ ops' = Append([ops EXCEPT ![t] = [@ EXCEPT !.cancelled = TRUE]],
                                         [op EXCEPT !.awaited = t, !.result = "TypeError"])
                        /\ fired' = fired
                        /\ Throw(outbound)
                   ELSE /\ ops' = Append([ops EXCEPT ![t] = [@ EXCEPT !.cancelled = TRUE]],
                                         [op EXCEPT !.awaited = t])
                        /\ fired' = fired \o FireAll(t, ops[t].onCancel.list)
                        /\ Reply(outbound, i, hasId, Null)
    /\ UNCHANGED <<exportedModel, instantiatedModels, dataVars>>

\* rpc.callEvaluate up to `await instantiatedModel.instantiated`.
CallEvaluate(hasId, mid, size) ==
    /\ CanReceive
    /\ LET i == Len(ops) + 1
           op == Lookup(NewOp("evaluate", hasId, mid, "none", size))
       IN  /\ ops' = Append(ops, op)
           /\ IF op.pc = "done" THEN Reply(outbound, i, hasId, op.result) ELSE NoReply
    /\ UNCHANGED <<exportedModel, instantiatedModels, trainingSessions, dataVars, fired>>

\* callEvaluate and callGetModelState from the await of the handle to the await
\* of the user's callback.
Resume(i) ==
    /\ alive
    /\ i \in OpIds
    /\ ops[i].method \in {"evaluate", "getState"} /\ ops[i].pc = "awaitInst"
    /\ Settled(ops[i])
    /\ IF AwaitedValue(ops[i]) = "null"
       THEN /\ ops' = [ops EXCEPT ![i] = [@ EXCEPT !.pc = "done",
                                             !.result = "instantiated_model_not_found"]]
            /\ Reply(outbound, i, ops[i].hasId, "instantiated_model_not_found")
       ELSE /\ ops' = [ops EXCEPT ![i] = Invoke(@)]
            /\ NoReply
    /\ UNCHANGED <<exportedModel, instantiatedModels, trainingSessions, dataVars, fired>>

\* Whether callEvaluate has set complete.complete by the time it returns:
\* "ok" and "badResult" (the callback returned, the result failed validation) pass
\* part_002:208; a callback that throws goes to the catch, which does not set it.
EvaluateCloses(outcome) == outcome # "fail"

\* `el.data.map((x) => x.byteLength)` (part_002:238): the lengths of the
\* segments of one output, a segment being a sequence of bytes.
ByteSizes(data) == [x \in 1..Len(data) |-> Len(data[x])]

\* The `outputs` of the reply (part_002:238): one entry per returned output.
Outputs(result) ==
    [e \in 1..Len(result) |-> [name |-> result[e].name,
                               byteSizes |-> ByteSizes(result[e].data),
                               amount |-> Len(result[e].data)]]

\* `result.flatMap((x) => x.data)`: the segments of all outputs, in order.
RECURSIVE FlatMap(_)
FlatMap(result) ==
    IF result = <<>> THEN <<>> ELSE Head(result).data \o FlatMap(Tail(result))

\* Buffer.concat: the bytes of the buffers, one after the other.
RECURSIVE Concat(_)
Concat(buffers) ==
    IF buffers = <<>> THEN <<>> ELSE Head(buffers) \o Concat(Tail(buffers))

\* AlsoSend with every segment as a raw segment of its own.
AlsoSendEach(result) == FlatMap(result)

\* The `alsoSend` of the reply (part_002:240): one buffer.
AlsoSend(result) == <<Concat(FlatMap(result))>>

\* The tail of processMessage for the successful return of callEvaluate
\* (part_002:236-241, 277-283): the reply carries the outputs in its JSON part and
\* the buffers of alsoSend after it.
EvaluateReply(out, i, hasId, result) ==
    IF ~hasId
    THEN Reply(out, i, hasId, "ok")
    ELSE /\ outbound' = Append(out, [kind |-> "reply", id |-> i, result |-> "ok",
                                     outputs |-> Outputs(result),
                                     alsoSend |-> AlsoSend(result)])
         /\ unhandled' = unhandled
         /\ alive' = alive

\* The rest of callEvaluate, run when the user's evaluate callback settles:
\* with "ok" it returned the well-formed list of outputs `result`.
EvaluateReturns(i, outcome, result) ==
    /\ alive
    /\ i \in OpIds
    /\ ops[i].method = "evaluate" /\ ops[i].pc = "user"
    /\ LET res == IF outcome = "ok" THEN "ok" ELSE "exception"
       IN  /\ ops' = [ops EXCEPT ![i] = [@ EXCEPT !.pc = "done", !.result = res,
                                             !.complete = EvaluateCloses(outcome),
                                             !.ret = IF outcome = "ok" THEN result ELSE <<>>]]
           /\ IF outcome = "ok"
              THEN EvaluateReply(outbound, i, ops[i].hasId, result)
              ELSE Reply(outbound, i, ops[i].hasId, res)
    /\ UNCHANGED <<exportedModel, instantiatedModels, trainingSessions, dataVars, fired>>

\* The user's evaluate settling, an empty list of outputs being what it returns.
EvaluateSettle(i, outcome) == EvaluateReturns(i, outcome, <<>>)

\* rpc.callGetModelState up to `await instantiatedModel.instantiated`.
CallGetModelState(hasId, mid) ==
    /\ CanReceive
    /\ LET i == Len(ops) + 1
           op == Lookup(NewOp("getState", hasId, mid, "none", 0))
       IN  /\ ops' = Append(ops, op)
           /\ IF op.pc = "done" THEN Reply(outbound, i, hasId, op.result) ELSE NoReply
    /\ UNCHANGED <<exportedModel, instantiatedModels, trainingSessions, dataVars, fired>>

\* The rest of callGetModelState, run when the user's getModelState settles: the
\* catch (part_002:264-266) leaves complete.complete unset.
GetModelStateSettle(i, ok) ==
    /\ alive
    /\ i \in OpIds
    /\ ops[i].method = "getState" /\ ops[i].pc = "user"
    /\ LET res == IF ok THEN "ok" ELSE "exception"
       IN  /\ ops' = [ops EXCEPT ![i] = [@ EXCEPT !.pc = "done", !.result = res,
                                             !.complete = ok]]
           /\ Reply(outbound, i, ops[i].hasId, res)
    /\ UNCHANGED <<exportedModel, instantiatedModels, trainingSessions, dataVars, fired>>

\* ---------------------------------------------------------- create-state

\* rpc.callCreateModelState up to the await of the user's callback; with no
\* module loaded `exportedModel.createModelState` throws inside the try.
CallCreateModelState(hasId, size) ==
    /\ CanReceive
    /\ LET i == Len(ops) + 1
           op == NewOp("createState", hasId, "none", "none", size)
       IN  IF exportedModel = "model"
           THEN /\ ops' = Append(ops, [op EXCEPT !.pc = "user", !.invoked = TRUE])
                /\ NoReply
           ELSE /\ ops' = Append(ops, [op EXCEPT !.complete = TRUE, !.result = "exception"])
                /\ Reply(outbound, i, hasId, "exception")
    /\ UNCHANGED <<exportedModel, instantiatedModels, trainingSessions, dataVars, fired>>

\* The rest of callCreateModelState, run when the user's callback settles.
CreateModelStateSettle(i, ok) ==
    /\ alive
    /\ i \in OpIds
    /\ ops[i].method = "createState" /\ ops[i].pc = "user"
    /\ LET res == IF ok THEN "ok" ELSE "exception"
       IN  /\ ops' = [ops EXCEPT ![i] = [@ EXCEPT !.pc = "done", !.result = res,
                                             !.complete = TRUE]]
           /\ Reply(outbound, i, ops[i].hasId, res)
    /\ UNCHANGED <<exportedModel, instantiatedModels, trainingSessions, dataVars, fired>>

\* ------------------------------------------------------------ DataLoader

Min(a, b) == IF a <= b THEN a ELSE b
Max(a, b) == IF a >= b THEN a ELSE b

\* DataLoader.remaining (part_003:60-62).
Remaining(o) == o.size - o.position

\* DataLoader.hasNext (part_003:64-66).
HasNext(o, amount) == Remaining(o) >= amount

\* NumToRead without the clamp to what remains.
NumToReadUnclamped(o, amount) == amount

\* numToRead of DataLoader.next (part_003:72), for an integer amount.
NumToRead(o, amount) == Min(amount, Remaining(o))

\* The guard of the read closure createDataLoader builds (part_003:131).
ReadClosed(o) == o.complete

\* PositionAfterNext moving the cursor by numToRead whatever its sign.
PositionAfterNextAlways(o, amount) == o.position + NumToRead(o, amount)

\* PositionAfterNext with the cursor left where it was when the request is made.
PositionAfterNextStale(o, amount) == o.position

\* #position after DataLoader.next(amount) (part_003:74-80): the cursor moves as
\* soon as read() has been called, whatever the promise it returned does.
PositionAfterNext(o, amount) ==
    IF NumToRead(o, amount) <= 0 THEN o.position ELSE o.position + NumToRead(o, amount)

\* SetPosition without the clamp of negative positions to 0.
SetPositionUnclamped(o, p) ==
    IF p >= o.size
    THEN [o EXCEPT !.setResult = "error"]
    ELSE [o EXCEPT !.setResult = "ok", !.position = p]

\* SetPosition accepting the position one past the last element.
SetPositionOffByOne(o, p) ==
    LET position == Max(p, 0)
    IN  IF position > o.size
        THEN [o EXCEPT !.setResult = "error"]
        ELSE [o EXCEPT !.setResult = "ok", !.position = position]

\* DataLoader.setPosition (part_003:47-58) for an integer argument: the op record
\* after the call.
SetPosition(o, p) ==
    LET position == Max(p, 0)
    IN  IF position >= o.size
        THEN [o EXCEPT !.setResult = "error"]
        ELSE [o EXCEPT !.setResult = "ok", !.position = position]

\* The elements of a dataset the host holds at startIndex .. startIndex+amount-1,
\* each named by its index.
Segments(startIndex, amount) == [j \in 1..amount |-> startIndex + j - 1]

CallsOf(i) == {c \in 1..Len(calls) : calls[c].op = i}

\* CounterAfterRead with the counter left as it was.
CounterAfterReadStale == dataRequestIdCounter

\* dataRequestIdCounter once read() has taken a request id with
\* `dataRequestIdCounter++` (part_003:107).
CounterAfterRead == dataRequestIdCounter + 1

\* DataLoader.next(amount) on the loader of op i, from a state where the loader
\* record is o.  The call is recorded with the cursor it started from, the
\* numToRead it computed (k), whether the handler of the op had returned by then
\* (late), and what became of the promise it returned: an empty result at once, a rejection if the operation is closed,
\* else read() (part_003:105-117): a fresh request id, a pending request, a
\* requestData event.
Next_(i, o, amount) ==
    LET k == NumToRead(o, amount)
        c == Len(calls) + 1
        call == [op |-> i, amount |-> amount, startIndex |-> o.position, k |-> Max(k, 0),
                 late |-> o.pc = "done",
                 requestId |-> -1, status |-> "resolved", got |-> <<>>]
    IN  /\ ops' = [ops EXCEPT ![i] = [o EXCEPT !.position = PositionAfterNext(o, amount)]]
        /\ IF k <= 0
           THEN /\ calls' = Append(calls, call)
                /\ UNCHANGED <<waiting, dataRequestIdCounter, outbound>>
           ELSE IF ReadClosed(o)
           THEN /\ calls' = Append(calls, [call EXCEPT !.status = "OperationClosed"])
                /\ UNCHANGED <<waiting, dataRequestIdCounter, outbound>>
           ELSE /\ calls' = Append(calls, [call EXCEPT !.status = "pending",
                                                        !.requestId = dataRequestIdCounter])
                /\ waiting' = [r \in DOMAIN waiting \cup {dataRequestIdCounter} |->
                                  IF r = dataRequestIdCounter THEN c ELSE waiting[r]]
                /\ dataRequestIdCounter' = CounterAfterRead
                /\ outbound' = Append(outbound,
                                  [kind |-> "requestData", requestId |-> dataRequestIdCounter,
                                   op |-> i, startIndex |-> o.position, amount |-> k])

\* The user's code calls next(amount) on the params loader of op i; it may do so
\* after the operation has returned, having kept the loader.
UserNext(i, amount) ==
    /\ alive
    /\ i \in OpIds
    /\ ops[i].method \in {"createState", "train", "evaluate"} /\ ops[i].invoked
    /\ Cardinality(CallsOf(i)) < MaxNext
    /\ Next_(i, ops[i], amount)
    /\ UNCHANGED <<alive, exportedModel, instantiatedModels, trainingSessions, unhandled, fired>>

\* The user's code calls setPosition(p) on the params loader of op i.
UserSetPosition(i, p) ==
    /\ alive
    /\ i \in OpIds
    /\ ops[i].method \in {"createState", "train", "evaluate"} /\ ops[i].invoked
    /\ ops' = [ops EXCEPT ![i] = SetPosition(@, p)]
    /\ UNCHANGED <<alive, exportedModel, instantiatedModels, trainingSessions, outbound,
                   unhandled, dataVars, fired>>

\* ReadStart leaving the cursor where the last read left it.
ReadStartWhereLeft(o) == [o EXCEPT !.setResult = "ok"]

\* `this.#inner.setPosition(0)`, the first statement of StateLoader.read
\* (part_003:98).
ReadStart(o) == SetPosition(o, 0)

\* `(await this.#inner.next(1))[0]` (part_003:99): what read() resolves to when
\* next(1) resolves to the list `got`.
ReadValue(got) == IF got = <<>> THEN Undefined ELSE got[1]

\* StateLoader.read (part_003:97-100) on the state loader of instantiate op i:
\* setPosition(0), which throws on an empty loader, then next(1).
UserRead(i) ==
    /\ alive
    /\ i \in OpIds
    /\ ops[i].method = "instantiate" /\ ops[i].invoked
    /\ Cardinality(CallsOf(i)) < MaxNext
    /\ LET o == ReadStart(ops[i])
       IN  IF o.setResult = "error"
           THEN /\ ops' = [ops EXCEPT ![i] = o]
                /\ UNCHANGED <<dataVars, outbound>>
           ELSE Next_(i, o, 1)
    /\ UNCHANGED <<alive, exportedModel, instantiatedModels, trainingSessions, unhandled, fired>>

\* Waiter falling back to some pending request when the id has none.
WaiterAny(requestId) ==
    IF requestId \in DOMAIN waiting THEN waiting[requestId]
    ELSE IF DOMAIN waiting # {} THEN waiting[CHOOSE r \in DOMAIN waiting : TRUE]
    ELSE 0

\* ShuffleEvent naming the other loaders only.
ShuffleEventOthersOnly(i, others) == [kind |-> "shuffle", datasets |-> others]

\* The event the shuffle closure of createDataLoader sends (part_003:137-139) for
\* the list DataLoader.shuffle / shuffleInGroup builds (part_003:33, 40): the
\* dataset of this loader, then those of the others.  The loader of op i reads
\* the dataset named i.
ShuffleEvent(i, others) == [kind |-> "shuffle", datasets |-> <<i>> \o others]

\* Shuffle events written so far.
Shuffles == {f \in 1..Len(outbound) : outbound[f].kind = "shuffle"}

\* The user's code calls shuffle() on the params loader of op i (part_003:32-34).
UserShuffle(i) ==
    /\ alive
    /\ i \in OpIds
    /\ ops[i].method \in {"createState", "train", "evaluate"} /\ ops[i].invoked
    /\ Cardinality(Shuffles) < MaxShuffle
    /\ outbound' = Append(outbound, ShuffleEvent(i, <<>>))
    /\ UNCHANGED <<alive, exportedModel, ops, instantiatedModels, trainingSessions,
                   unhandled, dataVars, fired>>

\* The user's code calls shuffleInGroup(others) on the params loader of op i
\* (part_003:36-41), others being a list of loaders it holds.
UserShuffleInGroup(i, others) ==
    /\ alive
    /\ i \in OpIds
    /\ ops[i].method \in {"createState", "train", "evaluate"} /\ ops[i].invoked
    /\ \A x \in 1..Len(others) :
          /\ others[x] \in OpIds
          /\ ops[others[x]].method \in {"createState", "train", "evaluate"}
          /\ ops[others[x]].invoked
    /\ Cardinality(Shuffles) < MaxShuffle
    /\ outbound' = Append(outbound, ShuffleEvent(i, others))
    /\ UNCHANGED <<alive, exportedModel, ops, instantiatedModels, trainingSessions,
                   unhandled, dataVars, fired>>

\* The waiter onDataProvided picks for a request id (part_003:231): the one
\* registered under that id, 0 if there is none.
Waiter(requestId) == IF requestId \in DOMAIN waiting THEN waiting[requestId] ELSE 0

\* The read loop decodes a DataDelivery frame for requestId carrying `data` and
\* calls onDataProvided (part_003:230-237).
OnDataProvided(requestId, data) ==
    /\ LoopFree
    /\ LET c == Waiter(requestId)
       IN  IF c = 0
           THEN UNCHANGED <<waiting, calls>>
           ELSE /\ waiting' = [r \in DOMAIN waiting \ {requestId} |-> waiting[r]]
                /\ calls' = [calls EXCEPT ![c] = [@ EXCEPT !.status = "resolved", !.got = data]]
    /\ UNCHANGED <<alive, exportedModel, ops, instantiatedModels, trainingSessions, outbound,
                   unhandled, dataRequestIdCounter, fired>>

\* The requestData events written so far.
Requests == {f \in 1..Len(outbound) : outbound[f].kind = "requestData"}

\* The host answers one of the requestData events it has received, in any order
\* and possibly again, with the segments the event asked for; or it sends a
\* DataDelivery for an id that was never requested.
HostDelivers ==
    \/ \E f \in Requests :
          OnDataProvided(outbound[f].requestId,
                         Segments(outbound[f].startIndex, outbound[f].amount))
    \/ OnDataProvided(dataRequestIdCounter, <<>>)

\* --------------------------------------------------------- StateProvider

\* One element { key, data } of the list passed to provideAll: the key, and the
\* Buffer named by id with its byteLength.
Item(key, id, byteLength) == [key |-> key, data |-> [id |-> id, byteLength |-> byteLength]]

\* The keys of a list of items.
Keys(data) == {data[n].key : n \in 1..Len(data)}

\* The provideStateData frames written for command i, in write order.
ProvideFrames(i) ==
    SelectSeq(outbound, LAMBDA f : f.kind = "provideStateData" /\ f.commandId = i)

\* KnownNames built from the frames the socket has flushed instead of being
\* recorded when a call is accepted.
KnownNamesFlushed(i) ==
    UNION {{ProvideFrames(i)[f].names[x] : x \in 1..Len(ProvideFrames(i)[f].names)} :
              f \in 1..ops[i].flushed}

\* The providedNames set of the provider of op i (part_003:192), filled
\* synchronously at part_003:209-211.
KnownNames(i) == ops[i].providedNames

\* `data.find((el) => providedNames.has(el.key))` finds something (part_003:198):
\* each element is compared with the keys of earlier calls only.
HasDuplicate(i, data) == \E n \in 1..Len(data) : data[n].key \in KnownNames(i)

\* What the closure of createStateProvider does with a list (part_003:194-208):
\* the error it throws, or "ok".
ProvideOutcome(i, data) ==
    IF ops[i].complete THEN "OperationClosed"
    ELSE IF HasDuplicate(i, data) THEN "DuplicateKey"
    ELSE IF Cardinality(KnownNames(i)) + Len(data) > KeyLimit THEN "LimitExceeded"
    ELSE IF \E n \in 1..Len(data) : data[n].data.byteLength > ByteLimit THEN "TooLarge"
    ELSE "ok"

\* Fits letting a message grow one byte past the limit.
FitsLoose(byteLength, totalLength) == byteLength <= ByteLimit - totalLength + 1

\* The condition of the inner packing loop (part_003:219),
\* `byteLength + totalLength < 1024 ** 3`, with totalLength moved to the right-hand
\* side so that no intermediate sum leaves the 32-bit integers.
Fits(byteLength, totalLength) == byteLength < ByteLimit - totalLength

\* The inner loop of the packing (part_003:219-224): i elements of data are in
\* the message, totalLength bytes together; the number of elements the message
\* ends up with.
RECURSIVE Fill(_, _, _)
Fill(data, i, totalLength) ==
    IF i < Len(data) /\ Fits(data[i + 1].data.byteLength, totalLength)
    THEN Fill(data, i + 1, totalLength + data[i + 1].data.byteLength)
    ELSE i

\* The outer loop of the packing (part_003:213-226): the groups of elements, one
\* per message, in sending order.
RECURSIVE Pack(_)
Pack(data) ==
    IF data = <<>> THEN <<>>
    ELSE LET n == Fill(data, 1, data[1].data.byteLength)
         IN  <<SubSeq(data, 1, n)>> \o Pack(SubSeq(data, n + 1, Len(data)))

\* Frame with the byte segments in the reverse order of the keys.
FrameMisaligned(i, group) ==
    [kind |-> "provideStateData", commandId |-> i,
     names |-> [n \in 1..Len(group) |-> group[n].key],
     blobs |-> [n \in 1..Len(group) |-> group[Len(group) + 1 - n].data]]

\* The event sendEventToParent('provideStateData', { commandId, names }, toSend)
\* writes for one group (part_003:225); command i stands for its own id.
Frame(i, group) ==
    [kind |-> "provideStateData", commandId |-> i,
     names |-> [n \in 1..Len(group) |-> group[n].key],
     blobs |-> [n \in 1..Len(group) |-> group[n].data]]

\* NamesAfter with the keys recorded before the checks are made.
NamesAfterEager(o, status, data) == o.providedNames \cup Keys(data)

\* providedNames after a call that ended with `status`: the keys are added at
\* part_003:209-211, which only a call that passed every check reaches.
NamesAfter(o, status, data) ==
    IF status = "ok" THEN o.providedNames \cup Keys(data) ELSE o.providedNames

\* The closure of createStateProvider (part_003:193-227) called with `data` on the
\* provider of op i through `api` ("provide" | "provideAll").  The call is
\* recorded with its list, whether the handler of the op had returned by then
\* (late), its outcome, the frames it wrote, and how many frames of this provider
\* were written and flushed when it was made.
Provide_(i, api, data) ==
    LET o == ops[i]
        status == ProvideOutcome(i, data)
        groups == Pack(data)
        frames == IF status = "ok" THEN [m \in 1..Len(groups) |-> Frame(i, groups[m])]
                  ELSE <<>>
        call == [api |-> api, data |-> data, late |-> o.pc = "done", status |-> status,
                 frames |-> frames,
                 framesBefore |-> Len(ProvideFrames(i)), flushedBefore |-> o.flushed]
    IN  /\ ops' = [ops EXCEPT ![i] = [o EXCEPT
                      !.providedNames = NamesAfter(o, status, data),
                      !.provides = Append(@, call)]]
        /\ outbound' = outbound \o frames

\* The user's code calls StateProvider.provideAll(data) (part_003:169-174) on the
\* provider of op i, with a well-formed list; it may do so after the operation
\* has returned, having kept the provider.
UserProvideAll(i, data) ==
    /\ alive
    /\ i \in OpIds
    /\ ops[i].method \in {"createState", "getState"} /\ ops[i].invoked
    /\ Len(ops[i].provides) < MaxProvide
    /\ Provide_(i, "provideAll", data)
    /\ UNCHANGED <<alive, exportedModel, instantiatedModels, trainingSessions, unhandled,
                   dataVars, fired>>

\* The user's code calls StateProvider.provide(key, data) (part_003:176-184).
UserProvide(i, item) ==
    /\ alive
    /\ i \in OpIds
    /\ ops[i].method \in {"createState", "getState"} /\ ops[i].invoked
    /\ Len(ops[i].provides) < MaxProvide
    /\ Provide_(i, "provide", <<item>>)
    /\ UNCHANGED <<alive, exportedModel, instantiatedModels, trainingSessions, unhandled,
                   dataVars, fired>>

\* sock.write (part_002:358-360) only queues a frame; the socket flushes the
\* oldest provideStateData frame of op i that is still queued.
Flush(i) ==
    /\ alive
    /\ i \in OpIds
    /\ ops[i].flushed < Len(ProvideFrames(i))
    /\ ops' = [ops EXCEPT ![i] = [@ EXCEPT !.flushed = @ + 1]]
    /\ UNCHANGED <<alive, exportedModel, instantiatedModels, trainingSessions, outbound,
                   unhandled, dataVars, fired>>

\* -------------------------------------------------------- specifications

Init ==
    /\ alive = TRUE
    /\ exportedModel = Undefined
    /\ ops = <<>>
    /\ instantiatedModels = [m \in ModelIds |-> 0]
    /\ trainingSessions = [t \in SessionIds |-> 0]
    /\ outbound = <<>>
    /\ unhandled = 0
    /\ waiting = <<>>
    /\ dataRequestIdCounter = 0
    /\ calls = <<>>
    /\ fired = <<>>

\* The lifecycle of instantiated models: every command that reads or writes the
\* handle map, with the user's callbacks settling either way.
Next ==
    \/ \E hasId \in BOOLEAN, loaded \in BOOLEAN : Len(ops) < MaxCmds /\ CallInitialize(hasId, loaded)
    \/ \E mid \in ModelIds : Len(ops) < MaxCmds /\ CallInstantiateModel(TRUE, mid, 0)
    \/ \E i \in OpIds, outcome \in {"model", "modelNoHook", "fail"} : InstantiateSettle(i, outcome)
    \/ \E hasId \in BOOLEAN, mid \in ModelIds : Len(ops) < MaxCmds /\ CallDisposeInstantiatedModel(hasId, mid)
    \/ \E mid \in ModelIds : Len(ops) < MaxCmds /\ CallTrain(TRUE, mid, "s1", 0)
    \/ \E i \in OpIds : TrainResume(i)
    \/ \E i \in OpIds, ok \in BOOLEAN : TrainSettle(i, ok)
    \/ \E mid \in ModelIds : Len(ops) < MaxCmds /\ CallEvaluate(TRUE, mid, 0)
    \/ \E mid \in ModelIds : Len(ops) < MaxCmds /\ CallGetModelState(TRUE, mid)
    \/ \E i \in OpIds : Resume(i)
    \/ \E i \in OpIds, outcome \in {"ok", "badResult", "fail"} : EvaluateSettle(i, outcome)
    \/ \E i \in OpIds, ok \in BOOLEAN : GetModelStateSettle(i, ok)

Spec == Init /\ [][Next]_vars

\* ------------------------------------------------------ lifecycle claims

\* The dispose commands that found handle k while its instantiation callback was
\* pending.
PendingDisposals(k) ==
    {d \in OpIds : ops[d].method = "dispose" /\ ops[d].awaited = k
                   /\ ops[d].awaitedKind = "promise"}

\* The dispose commands that found handle k Ready.
ReadyDisposals(k) ==
    {d \in OpIds : ops[d].method = "dispose" /\ ops[d].awaited = k
                   /\ ops[d].awaitedKind = "model"}

Instantiations == {k \in OpIds : ops[k].method = "instantiate"}

Lookups == {j \in OpIds : ops[j].method \in {"train", "evaluate", "getState"}}

\* C1: a handle disposed while its instantiation callback is pending has its
\* dispose hook run never before the callback resolves, exactly once when it has
\* resolved successfully (with a model that has a hook), and is never Ready: it
\* is not in the map and no command decoded after the dispose finds it.
C1_DisposeWhilePending ==
    \A k \in Instantiations : \A d \in PendingDisposals(k) :
        /\ ops[k].pc = "user" => ops[k].hookCalls = 0
        /\ (ops[k].pc = "done" /\ ops[k].result = "ok" /\ ops[k].hook) => ops[k].hookCalls = 1
        /\ ops[k].hookCalls <= 1
        /\ ops[k].stored # "model"
        /\ ops[k].promise # "model"
        /\ instantiatedModels[ops[k].mid] # k
        /\ \A j \in OpIds : j > d => ops[j].awaited # k

\* C1's case: a handle disposed while pending, whose callback then resolved with
\* a model that has a hook, and a later train command for the same id.
C1_Witness ==
    \E k \in Instantiations : \E d \in PendingDisposals(k) : \E j \in Lookups :
        /\ ops[k].pc = "done" /\ ops[k].result = "ok" /\ ops[k].hook
        /\ ops[k].hookCalls = 1
        /\ j > d /\ ops[j].mid = ops[k].mid
        /\ ops[j].result = "instantiated_model_not_found"

\* No instantiate command for id mid was decoded strictly between d and j.
SameHandle(d, j, mid) ==
    \A x \in Instantiations : ~(d < x /\ x < j /\ ops[x].mid = mid)

\* C2: disposing a Ready handle runs its hook and removes it: train, evaluate and
\* get-state commands decoded afterwards for that id end instantiated_model_not_found
\* and no callback of the disposed model is called.
C2_ReadyDisposeRemoves ==
    \A k \in Instantiations : \A d \in ReadyDisposals(k) :
        /\ ops[k].hook => ops[k].hookCalls >= 1
        /\ \A j \in Lookups :
              (j > d /\ ops[j].mid = ops[k].mid /\ SameHandle(d, j, ops[k].mid)) =>
                  /\ ~ops[j].invoked
                  /\ ops[j].pc = "done" => ops[j].result = "instantiated_model_not_found"

\* The reply frames written for command i.
RepliesTo(i) == {f \in 1..Len(outbound) : outbound[f].kind = "reply" /\ outbound[f].id = i}

\* C5: a command with a correlation id whose handler has finished has exactly one
\* reply frame with that id; a command without an id has none.
C5_OneReplyPerId ==
    \A i \in OpIds :
        IF ops[i].hasId
        THEN /\ Cardinality(RepliesTo(i)) <= 1
             /\ ops[i].pc = "done" => Cardinality(RepliesTo(i)) = 1
        ELSE Cardinality(RepliesTo(i)) = 0

\* The lookup of command j ended instantiated_model_not_found, replied so, and
\* never called a user callback.
NotFound(j) ==
    /\ ~ops[j].invoked
    /\ ops[j].pc = "done" =>
          /\ ops[j].result = "instantiated_model_not_found"
          /\ ops[j].hasId =>
                \E f \in RepliesTo(j) : outbound[f].result = "instantiated_model_not_found"

\* C18: a train, evaluate or get-state command ends instantiated_model_not_found
\* without calling a user callback when its id is not in the handle map, or when
\* the handle it found is disposed while pending or its instantiation fails; no
\* command ever ends instantiated_model_is_being_created.
C18_NotFound ==
    \A j \in Lookups :
        /\ ops[j].result # "instantiated_model_is_being_created"
        /\ \A f \in RepliesTo(j) : outbound[f].result # "instantiated_model_is_being_created"
        /\ ops[j].awaited = 0 => (ops[j].pc = "done" /\ NotFound(j))
        /\ (ops[j].awaited # 0
            /\ (ops[ops[j].awaited].disposed \/ ops[ops[j].awaited].result = "exception")) =>
               NotFound(j)

\* C18's case: a command that was waiting for a pending handle when the handle
\* was disposed, whose instantiation callback then returned a model, and that
\* ended instantiated_model_not_found.
C18_Witness ==
    \E k \in Instantiations : \E d \in PendingDisposals(k) : \E j \in Lookups :
        /\ j < d /\ ops[j].awaited = k
        /\ ops[k].pc = "done" /\ ops[k].result = "ok"
        /\ ops[j].pc = "done" /\ NotFound(j)
        /\ RepliesTo(j) # {}

\* No instantiate command for the id of handle k was decoded after k.
Latest(k) == \A x \in Instantiations : x > k => ops[x].mid # ops[k].mid

\* C24: from the decoding of its instantiate command on, a handle whose
\* instantiation callback is pending, that was not disposed and whose id was not
\* given to a later instantiate command, is in the handle map, where a dispose
\* command finds it; a handle whose instantiation failed is not in the map and
\* its command was answered with error code exception.
C24_PendingRegistered ==
    \A k \in Instantiations :
        /\ (ops[k].pc = "user" /\ ~ops[k].disposed /\ Latest(k)) =>
              instantiatedModels[ops[k].mid] = k
        /\ ops[k].result = "exception" =>
              /\ instantiatedModels[ops[k].mid] # k
              /\ ops[k].hasId => \E f \in RepliesTo(k) : outbound[f].result = "exception"

\* C34: a Ready handle whose id was not given to a later instantiate command
\* stays in the handle map when an earlier instantiation for the same id, that
\* was disposed while pending, fails afterwards.
C34_SecondHandleSurvives ==
    \A k1, k2 \in Instantiations :
        (/\ k1 < k2 /\ ops[k1].mid = ops[k2].mid
         /\ PendingDisposals(k1) # {}
         /\ ops[k2].stored = "model" /\ Latest(k2)) =>
            instantiatedModels[ops[k2].mid] = k2

\* C35: the dispose hook of one instantiated model object is invoked at most
\* once.
C35_HookAtMostOnce ==
    \A k \in Instantiations : ops[k].hookCalls <= 1

\* C36: a train, evaluate or get-state callback is called only on the model
\* object of an instantiation that has completed successfully and was not
\* disposed while pending: a command waiting for a handle has called nothing
\* while the instantiation callback is running, and calls nothing at all when
\* the handle is disposed while pending or the instantiation fails.
C36_CallbackOnReadyModel ==
    \A j \in Lookups :
        /\ ops[j].invoked =>
              /\ ops[j].awaited \in Instantiations
              /\ ops[ops[j].awaited].pc = "done"
              /\ ops[ops[j].awaited].result = "ok"
              /\ ops[ops[j].awaited].stored = "model"
              /\ ~ops[ops[j].awaited].disposed
        /\ (ops[j].awaited # 0 /\ ops[ops[j].awaited].pc = "user") => ~ops[j].invoked
        /\ (ops[j].awaited # 0 /\ PendingDisposals(ops[j].awaited) # {}) => ~ops[j].invoked

\* C36's case: a command decoded while the handle was pending, whose callback
\* was called once the instantiation had succeeded.
C36_Witness ==
    \E j \in Lookups :
        /\ ops[j].awaitedKind = "promise"
        /\ ops[j].invoked
        /\ ops[ops[j].awaited].result = "ok"

\* ------------------------------------------------------------ initialisation

\* Initialize commands, with and without an id, for modules of every kind.
NextInit ==
    \E hasId \in BOOLEAN, module \in Modules : Len(ops) < MaxCmds /\ Initialize(hasId, module)

SpecInit == Init /\ [][NextInit]_vars

\* The modelSessionInitialized events written for command i.
InitEvents(i) ==
    {f \in 1..Len(outbound) :
        outbound[f].kind = "modelSessionInitialized" /\ outbound[f].id = i}

\* C32: each initialize command writes exactly one modelSessionInitialized
\* event, which carries an error exactly when the load threw, there was no
\* default export, or the default export was null or not an object; no reply
\* frame is written for it.
C32_InitializeEvent ==
    \A i \in OpIds : ops[i].method = "initialize" =>
        /\ Cardinality(InitEvents(i)) = 1
        /\ \A f \in InitEvents(i) :
              outbound[f].result = "exception" <=>
                  ops[i].module \in {"throws", "undefined", "null", "function", "number"}
        /\ RepliesTo(i) = {}

\* C32's case: an initialize command for a module whose default export is
\* null, and one that carried an id for a module that loaded.
C32_Witness ==
    \E i, j \in OpIds :
        /\ ops[i].method = "initialize" /\ ops[i].module = "null"
        /\ \E f \in InitEvents(i) : outbound[f].result = "exception"
        /\ ops[j].method = "initialize" /\ ops[j].module = "object" /\ ops[j].hasId
        /\ \E f \in InitEvents(j) : outbound[f].result = "ok"

\* ------------------------------------------------------- layout of frames

\* The lengths of the segments of a frame: short ones, and those around the
\* point where the length no longer fits one byte.
SegmentLengths == 0..MaxOut \cup {255, 256, 258}

\* Segment x of a frame, len bytes that depend on x and on their place.
Bytes(x, len) == [b \in 1..len |-> (x + b) % 256]

\* The lists toSend: the JSON part and up to MaxOut blobs.
ToSends ==
    UNION {{[x \in 1..n |-> Bytes(x, lens[x])] : lens \in [1..n -> SegmentLengths]} :
           n \in 1..(MaxOut + 1)}

\* One reply or event written for each list of segments.
NextFrame == \E toSend \in ToSends : SendFrame(toSend)

SpecFrame == Init /\ [][NextFrame]_vars

\* The number four bytes stand for, most significant first.
FromBE(b) == ((b[1] * 256 + b[2]) * 256 + b[3]) * 256 + b[4]

\* What a receiver makes of bytes that end before a declared length does.
Malformed == <<-1>>

\* The segments a receiver reads from `bytes` going by the layout: count of
\* them still to read, the next one's header at offset position.
RECURSIVE ReadSegments(_, _, _)
ReadSegments(bytes, count, position) ==
    IF count = 0 THEN <<>>
    ELSE IF position + 8 > Len(bytes) THEN <<Malformed>>
    ELSE LET len == FromBE(SubSeq(bytes, position + 5, position + 8))
         IN  IF position + 8 + len > Len(bytes) THEN <<Malformed>>
             ELSE <<SubSeq(bytes, position + 9, position + 8 + len)>>
                      \o ReadSegments(bytes, count - 1, position + 8 + len)

Decode(bytes) == ReadSegments(bytes, FromBE(SubSeq(bytes, 2, 5)) + 1, 5)

\* C33: the bytes of a reply or event frame with n segments are a zero byte,
\* n - 1 in four bytes most significant first, then per segment in order eight
\* header bytes, the last four the segment's length most significant first,
\* and the segment's bytes, then one zero byte; there are 6 + 8n + (sum of the
\* segment lengths) of them, and reading them by this layout gives the segments
\* back in order.
C33_FrameLayout ==
    \A f \in 1..Len(outbound) : outbound[f].kind = "bytes" =>
        LET bytes == outbound[f].bytes
            toSend == outbound[f].toSend
            n == Len(toSend)
        IN  /\ Len(bytes) = 6 + 8 * n + ArgsTotalSize(toSend)
            /\ bytes[1] = 0
            /\ SubSeq(bytes, 2, 5) = BytesBE(n - 1)
            /\ bytes[Len(bytes)] = 0
            /\ Decode(bytes) = toSend

\* C33's case: a frame of three segments, one of them empty and one whose
\* length takes two bytes.
C33_Witness ==
    \E f \in 1..Len(outbound) :
        /\ outbound[f].kind = "bytes"
        /\ Len(outbound[f].toSend) = 3
        /\ Len(outbound[f].toSend[1]) = 258
        /\ Len(outbound[f].toSend[2]) = 0
        /\ Len(outbound[f].toSend[3]) = 2
        /\ Len(outbound[f].bytes) = 290

\* ------------------------------------------- commands waiting for a handle

\* Commands that wait for a pending handle: the host initialises the module,
\* sends an instantiate command and then train, evaluate, get-state and dispose
\* commands for its id; the instantiation callback returns a model, fails, or
\* never settles.
NextWait ==
    \/ ops = <<>> /\ CallInitialize(FALSE, TRUE)
    \/ \E mid \in ModelIds : Len(ops) = 1 /\ CallInstantiateModel(TRUE, mid, 0)
    \/ \E i \in OpIds, outcome \in {"model", "fail"} : InstantiateSettle(i, outcome)
    \/ \E mid \in ModelIds : Len(ops) \in 2..(MaxCmds - 1) /\ CallTrain(TRUE, mid, "s1", 0)
    \/ \E mid \in ModelIds : Len(ops) \in 2..(MaxCmds - 1) /\ CallEvaluate(TRUE, mid, 0)
    \/ \E mid \in ModelIds : Len(ops) \in 2..(MaxCmds - 1) /\ CallGetModelState(TRUE, mid)
    \/ \E mid \in ModelIds : Len(ops) \in 2..(MaxCmds - 1)
                                /\ CallDisposeInstantiatedModel(FALSE, mid)
    \/ \E i \in OpIds : TrainResume(i)
    \/ \E i \in OpIds : Resume(i)

\* A continuation whose awaited promise has settled runs; nothing makes the
\* user's instantiation callback settle.
FairnessWait ==
    \A i \in 1..MaxCmds : WF_vars(TrainResume(i)) /\ WF_vars(Resume(i))

SpecWait == Init /\ [][NextWait]_vars /\ FairnessWait

\* Command i is suspended at the await of a handle whose instantiation has
\* succeeded or failed, or which was disposed.
WaitOver(i) ==
    /\ i \in Lookups
    /\ ops[i].pc = "awaitInst"
    /\ \/ ops[ops[i].awaited].pc = "done"
       \/ ops[ops[i].awaited].disposed

\* C37: a train, evaluate or get-state command suspended on a handle resumes,
\* to the user's callback or to instantiated_model_not_found, once the
\* instantiation has succeeded or failed or the handle has been disposed,
\* whether or not the instantiation callback of a disposed handle ever settles.
C37_WaitingCommandResumes ==
    \A i \in 1..MaxCmds :
        WaitOver(i) ~>
            (/\ i \in Lookups
             /\ \/ ops[i].pc = "user"
                \/ ops[i].pc = "done" /\ ops[i].result = "instantiated_model_not_found")

\* C37's case: a command that waited for a pending handle has ended
\* instantiated_model_not_found after the handle was disposed, the instantiation
\* callback still running.
C37_Witness ==
    \E k \in Instantiations : \E d \in PendingDisposals(k) : \E j \in Lookups :
        /\ j < d /\ ops[j].awaited = k /\ ops[j].awaitedKind = "promise"
        /\ ops[k].pc = "user"
        /\ ops[j].pc = "done" /\ ops[j].result = "instantiated_model_not_found"

\* ----------------------------------------------------------- evaluate reply

\* Segment x of output e: len bytes, each labelled with its place.
Segment(e, x, len) == [b \in 1..len |-> <<e, x, b>>]

\* The segments of the output at place e: n of them, the x-th of
\* (shift + x) % (MaxOut + 1) bytes, so that the lengths within an output differ
\* and empty segments occur.
Data(e, n, shift) == [x \in 1..n |-> Segment(e, x, (shift + x) % (MaxOut + 1))]

\* The name of the output at place e: the outputs are named apart, or all alike.
NameOf(naming, e) == IF naming = "same" THEN 1 ELSE e

\* The well-formed values the user's evaluate returns: up to MaxOut outputs of
\* up to MaxOut segments each.
EvalResults ==
    UNION {{[e \in 1..n |-> [name |-> NameOf(naming, e),
                             data |-> Data(e, segs[e], shift[e])]] :
               segs \in [1..n -> 0..MaxOut], shift \in [1..n -> 0..MaxOut],
               naming \in {"apart", "same"}} :
           n \in 0..MaxOut}

\* One evaluate command on an instantiated model, the user's evaluate returning
\* a list of outputs, returning something else, or throwing.
NextEvaluate ==
    \/ ops = <<>> /\ CallInitialize(FALSE, TRUE)
    \/ \E mid \in ModelIds : Len(ops) = 1 /\ CallInstantiateModel(TRUE, mid, 0)
    \/ \E i \in OpIds : InstantiateSettle(i, "model")
    \/ \E hasId \in BOOLEAN, mid \in ModelIds : Len(ops) = 2 /\ CallEvaluate(hasId, mid, 0)
    \/ \E i \in OpIds : Resume(i)
    \/ \E i \in OpIds, outcome \in {"badResult", "fail"} : EvaluateReturns(i, outcome, <<>>)
    \/ \E i \in OpIds :
          /\ ops[i].pc = "user"
          /\ \E result \in EvalResults : EvaluateReturns(i, "ok", result)

SpecEvaluate == Init /\ [][NextEvaluate]_vars

RECURSIVE SumSizes(_)
SumSizes(sizes) == IF sizes = <<>> THEN 0 ELSE Head(sizes) + SumSizes(Tail(sizes))

\* Where segment x of output e starts in the payload, going by the byteSizes of
\* the reply alone.
RECURSIVE OffsetOf(_, _, _)
OffsetOf(outputs, e, x) ==
    IF x > 1 THEN outputs[e].byteSizes[x - 1] + OffsetOf(outputs, e, x - 1)
    ELSE IF e > 1 THEN SumSizes(outputs[e - 1].byteSizes) + OffsetOf(outputs, e - 1, 1)
    ELSE 0

\* Segment x of output e as the receiver cuts it out of the payload.
Cut(payload, outputs, e, x) ==
    SubSeq(payload, OffsetOf(outputs, e, x) + 1,
           OffsetOf(outputs, e, x) + outputs[e].byteSizes[x])

\* The successful replies to evaluate commands.
EvaluateReplies ==
    {f \in 1..Len(outbound) :
        /\ outbound[f].kind = "reply"
        /\ ops[outbound[f].id].method = "evaluate"
        /\ outbound[f].result = "ok"}

\* C22: a successful evaluate reply lists one entry per returned output, in
\* order, with its name and the lengths of its segments, and carries exactly
\* one raw segment, whose length is the sum of the byteSizes and which, cut by
\* the byteSizes, gives back every segment of every output.
C22_EvaluateReply ==
    \A f \in EvaluateReplies :
        LET ret == ops[outbound[f].id].ret
            outputs == outbound[f].outputs
            alsoSend == outbound[f].alsoSend
        IN  /\ Len(outputs) = Len(ret)
            /\ Len(alsoSend) = 1
            /\ \A e \in 1..Len(ret) :
                  /\ outputs[e].name = ret[e].name
                  /\ Len(outputs[e].byteSizes) = Len(ret[e].data)
                  /\ \A x \in 1..Len(ret[e].data) :
                        /\ outputs[e].byteSizes[x] = Len(ret[e].data[x])
                        /\ Cut(alsoSend[1], outputs, e, x) = ret[e].data[x]
            /\ Len(alsoSend[1]) = SumSizes([e \in 1..Len(outputs) |->
                                              SumSizes(outputs[e].byteSizes)])

\* C22's case: a successful reply for two outputs of two segments each, the
\* segments of different lengths, one of them empty.
C22_Witness ==
    \E f \in EvaluateReplies :
        /\ Len(outbound[f].outputs) = 2
        /\ outbound[f].outputs[1].byteSizes = <<1, 2>>
        /\ Len(outbound[f].outputs[2].byteSizes) = 2
        /\ outbound[f].outputs[2].byteSizes[2] = 0
        /\ Len(outbound[f].alsoSend[1]) > 3

\* ----------------------------------------------------- training sessions

\* Training sessions and their cancellation: train commands on two session ids,
\* the user's train code registering cancel callbacks, cancel commands.
NextTrain ==
    \/ Len(ops) < MaxCmds /\ CallInitialize(FALSE, TRUE)
    \/ \E mid \in ModelIds : Len(ops) < MaxCmds /\ CallInstantiateModel(TRUE, mid, 0)
    \/ \E i \in OpIds, outcome \in {"model", "fail"} : InstantiateSettle(i, outcome)
    \/ \E mid \in ModelIds, sid \in SessionIds : Len(ops) < MaxCmds /\ CallTrain(TRUE, mid, sid, 0)
    \/ \E i \in OpIds : TrainResume(i)
    \/ \E i \in OpIds, ok \in BOOLEAN : TrainSettle(i, ok)
    \/ \E i \in OpIds : UserOnCancel(i)
    \/ \E hasId \in BOOLEAN, sid \in SessionIds : Len(ops) < MaxCmds /\ CallCancelTrain(hasId, sid)

SpecTrain == Init /\ [][NextTrain]_vars

Trains == {t \in OpIds : ops[t].method = "train"}

\* The cancel commands that found the tracker of train op t in the session map.
Cancels(t) == {c \in OpIds : ops[c].method = "cancel" /\ ops[c].awaited = t}

\* The callbacks of tracker t that were invoked, in invocation order.
RECURSIVE FiredOf(_, _)
FiredOf(t, log) ==
    IF log = <<>> THEN <<>>
    ELSE IF Head(log)[1] = t THEN <<Head(log)[2]>> \o FiredOf(t, Tail(log))
    ELSE FiredOf(t, Tail(log))

\* C3: a cancel command for a known session sets cancelled and invokes every
\* callback the train code passed to onCancel before it, once each and in the
\* order of registration, within the handling of the command.
C3_CancelFiresCallbacks ==
    \A t \in Trains : \A c \in Cancels(t) :
        /\ ops[t].cancelled
        /\ ops[c].cbSeen >= 1 =>
              \E n \in 1..Len(FiredOf(t, fired)) :
                  /\ n = ops[c].cbSeen
                  /\ FiredOf(t, fired) = [x \in 1..n |-> x]
        /\ ops[c].cbSeen = 0 => FiredOf(t, fired) = <<>>

\* The step is the decoding of a cancel command for a session id that is not in
\* the session map.
CancelUnknownStep ==
    /\ Len(ops') = Len(ops) + 1
    /\ ops'[Len(ops')].method = "cancel"
    /\ trainingSessions[ops'[Len(ops')].sid] = 0

CancelStep ==
    /\ Len(ops') = Len(ops) + 1
    /\ ops'[Len(ops')].method = "cancel"

\* C25 as stated: the tracker of every train operation that has returned is
\* marked completed and is not in the session map.
C25_ReturnedTrackerCompleted ==
    \A t \in Trains : ops[t].pc = "done" =>
        /\ ops[t].trkComplete
        /\ trainingSessions[ops[t].sid] # t

\* C25: once a train operation has returned its tracker is not in the session
\* map and, if the user's train was called, it is marked completed, whether the
\* train succeeded or failed; no later step, a cancel command for its session
\* id included, finds the tracker, sets its cancelled flag or invokes a
\* callback of it.
C25_ReturnedTrackerInert ==
    [][\A t \in Trains : ops[t].pc = "done" =>
          /\ trainingSessions[ops[t].sid] # t
          /\ ops[t].invoked => ops[t].trkComplete
          /\ ops'[t].cancelled = ops[t].cancelled
          /\ FiredOf(t, fired') = FiredOf(t, fired)
          /\ CancelStep => ops'[Len(ops')].awaited # t]_vars

\* C25's case: a cancel command for the session of a train operation whose
\* callback had run and which had returned without having been cancelled, no
\* other train command having used the session id.
C25_Witness ==
    \E t \in Trains : \E c \in OpIds :
        /\ ops[t].invoked /\ ops[t].pc = "done" /\ ~ops[t].cancelled
        /\ \A u \in Trains : ops[u].sid = ops[t].sid => u = t
        /\ c > t /\ ops[c].method = "cancel" /\ ops[c].sid = ops[t].sid
        /\ ops[c].awaited = 0
        /\ \A d \in OpIds : ops[d].method = "cancel" => d = c

\* C26: a cancel command decoded while the user's train callback is running
\* leaves the process running the callback, does not end the callback and
\* writes no train reply; a train reply is there only once the train operation
\* has returned.
C26_CancelCooperative ==
    [][/\ \A t \in Trains : RepliesTo(t) # {} => ops[t].pc = "done"
       /\ (CancelStep /\ \E t \in Trains : ops[t].pc = "user") =>
             /\ alive'
             /\ \A t \in Trains : ops'[t].pc = ops[t].pc
             /\ \A f \in 1..Len(outbound') :
                   (outbound'[f].kind = "reply" /\ outbound'[f].id \in Trains)
                       => f <= Len(outbound)]_vars

\* C40: a train operation whose callback is running, that was not cancelled and
\* whose session id was not given to a later train command, has its tracker in
\* the session map, where a cancel command finds it, whatever other train
\* operations have returned meanwhile.
C40_RunningTrackerMapped ==
    \A t \in Trains :
        (/\ ops[t].pc = "user" /\ ~ops[t].cancelled
         /\ \A u \in Trains : u > t => ops[u].sid # ops[t].sid) =>
            trainingSessions[ops[t].sid] = t

\* ------------------------------------------------------ one training session

\* One training session from its command to after its reply: the host
\* initialises the module, instantiates a model, sends a train command and then
\* a cancel command; the user's train code reports progress and metrics (an
\* empty list, a list of MaxReport metrics) on the tracker during the operation
\* and, having kept the tracker, after it.
NextSession ==
    \/ ops = <<>> /\ CallInitialize(FALSE, TRUE)
    \/ \E mid \in ModelIds : Len(ops) = 1 /\ CallInstantiateModel(TRUE, mid, 0)
    \/ \E i \in OpIds, outcome \in {"model", "fail"} : InstantiateSettle(i, outcome)
    \/ \E mid \in ModelIds : Len(ops) = 2 /\ CallTrain(TRUE, mid, "s1", 0)
    \/ \E i \in OpIds : TrainResume(i)
    \/ \E i \in OpIds, ok \in BOOLEAN : TrainSettle(i, ok)
    \/ \E i \in OpIds : UserProgress(i)
    \/ \E i \in OpIds, n \in {0, MaxReport} : UserMetrics(i, n)
    \/ Len(ops) = 3 /\ CallCancelTrain(FALSE, "s1")

SpecSession == Init /\ [][NextSession]_vars

\* The progress and metrics events written for train op t.
TrackerEvents(t) ==
    {f \in 1..Len(outbound) :
        /\ outbound[f].kind \in {"trainingProgress", "trainingMetrics"}
        /\ outbound[f].op = t}

\* The events the first n progress()/metrics() calls on the tracker of t sent.
RECURSIVE EventsOf(_, _)
EventsOf(t, n) == IF n = 0 THEN 0 ELSE ops[t].reports[n].events + EventsOf(t, n - 1)

\* C23: a progress() or metrics() call made while the train operation is in
\* flight succeeds and sends exactly one event, none for metrics([]); one made
\* after the operation has returned, successfully or not, fails with
\* AlreadyCompleted and sends none; the events written are those of the calls,
\* each naming the training session.
C23_TrackerReports ==
    \A t \in Trains :
        /\ \A c \in 1..Len(ops[t].reports) :
              LET call == ops[t].reports[c]
              IN  IF call.late
                  THEN call.status = "AlreadyCompleted" /\ call.events = 0
                  ELSE /\ call.status = "ok"
                       /\ call.events = IF call.api = "metrics" /\ call.n = 0 THEN 0 ELSE 1
        /\ Cardinality(TrackerEvents(t)) = EventsOf(t, Len(ops[t].reports))
        /\ \A f \in TrackerEvents(t) : outbound[f].trainingSessionId = ops[t].sid

\* C23's case: a train operation that failed, on whose tracker a report had
\* sent an event and metrics([]) had sent none while it ran, and a report made
\* after it failed was refused.
C23_Witness ==
    \E t \in Trains : \E a, b, c \in 1..Len(ops[t].reports) :
        /\ ops[t].pc = "done" /\ ops[t].result = "exception"
        /\ ~ops[t].reports[a].late /\ ops[t].reports[a].events = 1
        /\ ~ops[t].reports[b].late /\ ops[t].reports[b].api = "metrics"
        /\ ops[t].reports[b].n = 0 /\ ops[t].reports[b].events = 0
        /\ ops[t].reports[c].late /\ ops[t].reports[c].status = "AlreadyCompleted"
        /\ Cardinality(TrackerEvents(t)) = 1

\* One training session cancelled again and again: after the train command
\* the host sends cancel commands for its session id, the user's train code
\* calling onCancel meanwhile.
NextCancel ==
    \/ ops = <<>> /\ CallInitialize(FALSE, TRUE)
    \/ \E mid \in ModelIds : Len(ops) = 1 /\ CallInstantiateModel(TRUE, mid, 0)
    \/ \E i \in OpIds, outcome \in {"model", "fail"} : InstantiateSettle(i, outcome)
    \/ \E mid \in ModelIds : Len(ops) = 2 /\ CallTrain(TRUE, mid, "s1", 0)
    \/ \E i \in OpIds : TrainResume(i)
    \/ \E i \in OpIds, ok \in BOOLEAN : TrainSettle(i, ok)
    \/ \E i \in OpIds : UserOnCancel(i)
    \/ \E hasId \in BOOLEAN : Len(ops) >= 3 /\ CallCancelTrain(hasId, "s1")

SpecCancel == Init /\ [][NextCancel]_vars

\* C27: the cancelled flag of a tracker is set by at most one cancel command
\* and never reset; once it is set no later step, a further cancel command for
\* the same session id included, finds the tracker or invokes a callback of it.
C27_CancelledOnce ==
    [][\A t \in Trains :
          /\ Cardinality(Cancels(t)) <= 1
          /\ ops[t].cancelled <=> Cancels(t) # {}
          /\ ops[t].cancelled =>
                /\ ops'[t].cancelled
                /\ trainingSessions'[ops[t].sid] # t
                /\ FiredOf(t, fired') = FiredOf(t, fired)
                /\ CancelStep => ops'[Len(ops')].awaited # t]_vars

\* C27's case: two cancel commands for the session of a train operation whose
\* callback is running; the first found the tracker, the second found none.
C27_Witness ==
    \E t \in Trains : \E c1, c2 \in OpIds :
        /\ ops[t].pc = "user" /\ ops[t].cancelled /\ ops[t].cbThrew >= 1
        /\ c1 < c2
        /\ ops[c1].method = "cancel" /\ ops[c1].sid = ops[t].sid /\ ops[c1].awaited = t
        /\ ops[c2].method = "cancel" /\ ops[c2].sid = ops[t].sid /\ ops[c2].awaited = 0

\* ------------------------------------------------------------ data loader

\* The arguments the user's code passes to next() and setPosition().
Amounts == -1..MaxSize

\* The cursor of one data loader and its requests: the host initialises the
\* module and sends one create-state command (the one handler that hands out a
\* loader without needing a handle); the user's code calls next() and
\* setPosition() during and after the operation, the host answers in any order.
NextLoader ==
    \/ ops = <<>> /\ CallInitialize(FALSE, TRUE)
    \/ \E size \in 0..MaxSize : Len(ops) = 1 /\ CallCreateModelState(TRUE, size)
    \/ \E i \in OpIds, ok \in BOOLEAN : CreateModelStateSettle(i, ok)
    \/ \E i \in OpIds, amount \in Amounts : UserNext(i, amount)
    \/ \E i \in OpIds, p \in Amounts : UserSetPosition(i, p)
    \/ HostDelivers

SpecLoader == Init /\ [][NextLoader]_vars

\* The next() calls made on the loader of op i, in call order.
CallSeq(i) == SelectSeq(calls, LAMBDA c : c.op = i)

RECURSIVE SumAmounts(_)
SumAmounts(cs) == IF cs = <<>> THEN 0 ELSE Head(cs).amount + SumAmounts(Tail(cs))

RECURSIVE SumReturned(_)
SumReturned(cs) == IF cs = <<>> THEN 0 ELSE Len(Head(cs).got) + SumReturned(Tail(cs))

\* Every next() call on the loader of op i has resolved, none was rejected, and
\* setPosition was never called: the loader has only seen a sequence of next()
\* calls from position 0, each answered by the host.
OnlyNextAnswered(i) ==
    /\ ops[i].setResult = "none"
    /\ \A c \in CallsOf(i) : calls[c].status = "resolved"

\* C7: overlapping next() calls on one loader ask for adjoining ranges in the
\* order of the calls (each starts where the previous one ended), and each call
\* resolves to the segments of its own range, whatever the order of delivery.
C7_OverlappingNext ==
    \A i \in OpIds :
        /\ ops[i].setResult = "none" =>
              \A x \in 1..Len(CallSeq(i)) :
                  CallSeq(i)[x].startIndex =
                      IF x = 1 THEN 0 ELSE CallSeq(i)[x - 1].startIndex + CallSeq(i)[x - 1].k
        /\ \A c \in CallsOf(i) :
              (calls[c].status = "resolved" /\ calls[c].k > 0) =>
                  calls[c].got = Segments(calls[c].startIndex, calls[c].k)

\* C7's case: two next() calls on one loader, the second made while the first
\* was unanswered, and the host has answered the second but not yet the first.
C7_Witness ==
    \E c1, c2 \in 1..Len(calls) :
        /\ c1 < c2 /\ calls[c1].op = calls[c2].op
        /\ calls[c1].k > 0 /\ calls[c2].k > 0
        /\ calls[c1].status = "pending"
        /\ calls[c2].status = "resolved"
        /\ calls[c2].startIndex = calls[c1].startIndex + calls[c1].k

\* C8 as stated: after any sequence of answered next(n) calls from position 0,
\* the segments returned number min(N, sum of n) and so does position().
C8_TotalReturned ==
    \A i \in OpIds :
        OnlyNextAnswered(i) =>
            /\ SumReturned(CallSeq(i)) = Min(ops[i].size, SumAmounts(CallSeq(i)))
            /\ ops[i].position = Min(ops[i].size, SumAmounts(CallSeq(i)))

\* C8 amended: the same for sequences of next(n) calls with every n >= 0.
C8_TotalReturnedNonNegative ==
    \A i \in OpIds :
        (OnlyNextAnswered(i) /\ \A c \in CallsOf(i) : calls[c].amount >= 0) =>
            /\ SumReturned(CallSeq(i)) = Min(ops[i].size, SumAmounts(CallSeq(i)))
            /\ ops[i].position = Min(ops[i].size, SumAmounts(CallSeq(i)))

\* C8's case: several answered next() calls that together ask for more than the
\* loader holds, the last one cut short.
C8_Witness ==
    \E i \in OpIds :
        /\ OnlyNextAnswered(i) /\ \A c \in CallsOf(i) : calls[c].amount >= 0
        /\ Cardinality(CallsOf(i)) >= 2
        /\ SumAmounts(CallSeq(i)) > ops[i].size
        /\ SumReturned(CallSeq(i)) = ops[i].size
        /\ ops[i].size > 0
        /\ \A c \in CallsOf(i) : calls[c].k > 0

\* C9: setPosition(p) fails and leaves position() as it was for every p >=
\* elementCount, succeeds and makes position() = p for every 0 <= p < elementCount.
C9_SetPosition ==
    [][\A i \in 1..MaxCmds, p \in Amounts :
          (i \in OpIds /\ UserSetPosition(i, p)) =>
              /\ p >= ops[i].size =>
                    ops'[i].setResult = "error" /\ ops'[i].position = ops[i].position
              /\ (0 <= p /\ p < ops[i].size) =>
                    ops'[i].setResult = "ok" /\ ops'[i].position = p]_vars

\* C9's case: a loader whose cursor had been moved, on which setPosition was then
\* called and failed, the cursor staying where it was.
C9_Witness ==
    \E i \in OpIds :
        /\ ops[i].setResult = "error"
        /\ ops[i].position > 0 /\ ops[i].position < ops[i].size

\* The segment lists a DataDelivery frame of the host can carry: what a
\* requestData written so far asked for, or nothing.
Deliveries ==
    {<<>>} \cup {Segments(outbound[f].startIndex, outbound[f].amount) : f \in Requests}

\* C20: a DataDelivery for a request id that has a pending request resolves the
\* next() that made that request, with the delivered segments in order, and
\* removes the pending request, leaving the others; a DataDelivery for an id
\* without a pending request changes nothing; a next() that is no longer pending
\* is never resolved again.
C20_DeliveryResolvesOnce ==
    [][/\ \A r \in 0..dataRequestIdCounter, data \in Deliveries :
             OnDataProvided(r, data) =>
                 IF r \in DOMAIN waiting
                 THEN /\ calls[waiting[r]].status = "pending"
                      /\ calls[waiting[r]].requestId = r
                      /\ calls' = [calls EXCEPT ![waiting[r]] =
                                      [@ EXCEPT !.status = "resolved", !.got = data]]
                      /\ DOMAIN waiting' = DOMAIN waiting \ {r}
                      /\ \A q \in DOMAIN waiting' : waiting'[q] = waiting[q]
                      /\ UNCHANGED <<ops, outbound, dataRequestIdCounter>>
                 ELSE UNCHANGED vars
       /\ \A c \in 1..Len(calls) : calls[c].status # "pending" => calls'[c] = calls[c]]_vars

\* C20's case: of two requests pending together the later one was answered, its
\* next() resolved with the delivered segments and its pending request removed,
\* while the earlier one is still pending.
C20_Witness ==
    \E c1, c2 \in 1..Len(calls) :
        /\ c1 < c2
        /\ calls[c1].status = "pending" /\ calls[c1].requestId \in DOMAIN waiting
        /\ waiting[calls[c1].requestId] = c1
        /\ calls[c2].status = "resolved" /\ calls[c2].requestId >= 0
        /\ calls[c2].requestId \notin DOMAIN waiting
        /\ calls[c2].got = Segments(calls[c2].startIndex, calls[c2].k)
        /\ Len(calls[c2].got) >= 1

\* The ops that hand a params loader to the user's code.
Loaders == {i \in OpIds : ops[i].method \in {"createState", "train", "evaluate"}}

\* C28 as stated: the cursor of a loader with elementCount N > 0 satisfies
\* 0 <= position < N, and stays 0 when N = 0.
C28_CursorBelowSize ==
    \A i \in Loaders :
        IF ops[i].size > 0
        THEN 0 <= ops[i].position /\ ops[i].position < ops[i].size
        ELSE ops[i].position = 0

\* C28 amended: after any sequence of setPosition and next calls the cursor
\* satisfies 0 <= position <= N; it is N once everything has been read.
C28_CursorWithinSize ==
    \A i \in Loaders : 0 <= ops[i].position /\ ops[i].position <= ops[i].size

\* C28's case: a loader of several elements on which setPosition was called and
\* whose cursor next() then took to the end.
C28_Witness ==
    \E i \in Loaders : \E c \in CallsOf(i) :
        /\ ops[i].size > 1
        /\ ops[i].setResult = "ok"
        /\ calls[c].startIndex > 0 /\ calls[c].k > 0
        /\ ops[i].position = ops[i].size

\* C29: next(n) with min(n, remaining()) <= 0 resolves at once to the empty
\* sequence, writes no requestData, registers no pending request and leaves the
\* cursor where it was.
C29_NextNothingToRead ==
    [][\A i \in 1..MaxCmds, amount \in Amounts :
          (/\ i \in OpIds
           /\ UserNext(i, amount)
           /\ Min(amount, ops[i].size - ops[i].position) <= 0) =>
              /\ Len(calls') = Len(calls) + 1
              /\ \A c \in 1..Len(calls) : calls'[c] = calls[c]
              /\ calls'[Len(calls')].op = i
              /\ calls'[Len(calls')].status = "resolved"
              /\ calls'[Len(calls')].got = <<>>
              /\ outbound' = outbound
              /\ waiting' = waiting
              /\ dataRequestIdCounter' = dataRequestIdCounter
              /\ ops'[i].position = ops[i].position]_vars

\* C29's case: next(n) with n >= 1 on a loader whose cursor is at the end, after
\* an earlier next() read its elements, resolved to nothing with the cursor
\* staying at the end.
C29_Witness ==
    \E i \in Loaders : \E c \in CallsOf(i) :
        /\ ops[i].size > 0
        /\ calls[c].amount >= 1 /\ calls[c].k = 0
        /\ calls[c].startIndex = ops[i].size
        /\ calls[c].status = "resolved" /\ calls[c].got = <<>> /\ calls[c].requestId = -1
        /\ ops[i].position = ops[i].size

\* ---------------------------------------------------- several data loaders

\* Several loaders side by side: the host initialises the module and sends
\* create-state commands, each handing a params loader to the user's code, which
\* reads them during and after the operations; the host answers in any order.
NextLoaders ==
    \/ ops = <<>> /\ CallInitialize(FALSE, TRUE)
    \/ Len(ops) >= 1 /\ Len(ops) < MaxCloseCmds /\ CallCreateModelState(TRUE, MaxSize)
    \/ \E i \in OpIds, ok \in BOOLEAN : CreateModelStateSettle(i, ok)
    \/ \E i \in OpIds, amount \in 1..MaxSize : UserNext(i, amount)
    \/ HostDelivers

SpecLoaders == Init /\ [][NextLoaders]_vars

\* C21: the request ids of the requestData events are strictly increasing in
\* writing order; no two next() calls that are pending share an id; every
\* requestData written belongs to exactly one next() call, which is pending
\* exactly as long as the map of pending requests holds it under that id.
C21_RequestIdsIncrease ==
    /\ \A f, g \in Requests : f < g => outbound[f].requestId < outbound[g].requestId
    /\ \A c, e \in 1..Len(calls) :
          (c # e /\ calls[c].status = "pending" /\ calls[e].status = "pending") =>
              calls[c].requestId # calls[e].requestId
    /\ \A f \in Requests :
          /\ Cardinality({c \in 1..Len(calls) : calls[c].requestId = outbound[f].requestId}) = 1
          /\ \A c \in 1..Len(calls) :
                calls[c].requestId = outbound[f].requestId =>
                    /\ calls[c].op = outbound[f].op
                    /\ calls[c].status = "pending" <=>
                          /\ calls[c].requestId \in DOMAIN waiting
                          /\ waiting[calls[c].requestId] = c
    /\ \A r \in DOMAIN waiting : \E f \in Requests : outbound[f].requestId = r

\* C21's case: requests of two different loaders pending together, under
\* different ids, after an earlier request had been answered.
C21_Witness ==
    \E c1, c2, c3 \in 1..Len(calls) :
        /\ calls[c1].status = "resolved" /\ calls[c1].requestId >= 0
        /\ calls[c2].status = "pending" /\ calls[c3].status = "pending"
        /\ calls[c2].op # calls[c3].op
        /\ calls[c1].requestId < calls[c2].requestId
        /\ calls[c2].requestId < calls[c3].requestId
        /\ Cardinality(DOMAIN waiting) = 2

\* The lists of loaders the user's code passes to shuffleInGroup: lists of the
\* loaders handed out, as long as there are loaders, repetitions and the loader
\* itself included.
OtherLoaders == UNION {[1..n -> 2..MaxCloseCmds] : n \in 0..(MaxCloseCmds - 1)}

\* Loaders being shuffled: the host initialises the module and sends
\* create-state commands; the user's code reads the params loaders and shuffles
\* them, alone and in groups, during and after the operations.
NextShuffle ==
    \/ ops = <<>> /\ CallInitialize(FALSE, TRUE)
    \/ Len(ops) >= 1 /\ Len(ops) < MaxCloseCmds /\ CallCreateModelState(TRUE, MaxSize)
    \/ \E i \in OpIds, ok \in BOOLEAN : CreateModelStateSettle(i, ok)
    \/ \E i \in OpIds : UserNext(i, 1)
    \/ \E i \in OpIds : UserShuffle(i)
    \/ \E i \in OpIds, others \in OtherLoaders : UserShuffleInGroup(i, others)

SpecShuffle == Init /\ [][NextShuffle]_vars

\* C30: shuffle() writes exactly one shuffle event naming the dataset of this
\* loader only, shuffleInGroup(others) exactly one naming this loader's dataset
\* followed by the datasets of others in order; neither moves the cursor of any
\* loader nor registers a pending request.
C30_ShuffleEvents ==
    [][\A i \in 1..MaxCloseCmds :
          /\ (i \in OpIds /\ UserShuffle(i)) =>
                /\ outbound' = Append(outbound, [kind |-> "shuffle", datasets |-> <<i>>])
                /\ UNCHANGED <<ops, waiting, dataRequestIdCounter, calls>>
          /\ \A others \in OtherLoaders :
                (i \in OpIds /\ UserShuffleInGroup(i, others)) =>
                    /\ outbound' = Append(outbound,
                                      [kind |-> "shuffle", datasets |-> <<i>> \o others])
                    /\ UNCHANGED <<ops, waiting, dataRequestIdCounter, calls>>]_vars

\* C30's case: a loader whose cursor had moved and whose request was pending
\* was shuffled in a group with another loader, cursor and request staying.
C30_Witness ==
    \E f \in Shuffles : \E g \in Requests :
        /\ g < f
        /\ Len(outbound[f].datasets) >= 2
        /\ outbound[f].datasets[1] # outbound[f].datasets[2]
        /\ outbound[g].op = outbound[f].datasets[1]
        /\ ops[outbound[f].datasets[1]].position > 0
        /\ outbound[g].requestId \in DOMAIN waiting

\* ------------------------------------------------------- artifact loaders

\* State loaders of one element: the host initialises the module and sends
\* two instantiate commands whose state has one element; the user's instantiate
\* callback reads the state again and again, during the operation and, having
\* kept the loader, after it; the host delivers.
NextRead ==
    \/ ops = <<>> /\ CallInitialize(FALSE, TRUE)
    \/ \E mid \in ModelIds : Len(ops) \in 1..2 /\ CallInstantiateModel(TRUE, mid, 1)
    \/ \E i \in OpIds, outcome \in {"model", "fail"} : InstantiateSettle(i, outcome)
    \/ \E i \in OpIds : UserRead(i)
    \/ HostDelivers

SpecRead == Init /\ [][NextRead]_vars

\* The read() calls made on state loaders while their operation was open.
OpenReads ==
    {c \in 1..Len(calls) : ops[calls[c].op].method = "instantiate" /\ ~calls[c].late}

\* C31: every read() of a state loader of one element made while its operation
\* is open sends a requestData for startIndex 0 and amount 1, however many reads
\* were made before it, and resolves to the one segment the host delivers for
\* that request.
C31_ReadAlwaysServed ==
    \A c \in OpenReads :
        /\ calls[c].startIndex = 0 /\ calls[c].k = 1
        /\ calls[c].status \in {"pending", "resolved"}
        /\ \E f \in Requests :
              /\ outbound[f].requestId = calls[c].requestId
              /\ outbound[f].op = calls[c].op
              /\ outbound[f].startIndex = 0 /\ outbound[f].amount = 1
        /\ calls[c].status = "resolved" =>
              /\ Len(calls[c].got) = 1
              /\ ReadValue(calls[c].got) = 0

\* C31's case: a second read() of the same loader, made after the first had
\* resolved, resolved to the segment as well.
C31_Witness ==
    \E c1, c2 \in OpenReads :
        /\ c1 < c2 /\ calls[c1].op = calls[c2].op
        /\ calls[c1].status = "resolved" /\ calls[c2].status = "resolved"
        /\ calls[c1].requestId # calls[c2].requestId
        /\ ReadValue(calls[c2].got) = 0

\* -------------------------------------------- loaders of closed operations

\* Every operation that hands loaders to the user's code, the callbacks settling
\* either way, and the user's code reading from a loader during and after its
\* operation.
NextClose ==
    \/ Len(ops) < MaxCloseCmds /\ CallInitialize(FALSE, TRUE)
    \/ Len(ops) < MaxCloseCmds /\ CallCreateModelState(TRUE, MaxSize)
    \/ \E i \in OpIds, ok \in BOOLEAN : CreateModelStateSettle(i, ok)
    \/ \E mid \in ModelIds : Len(ops) < MaxCloseCmds /\ CallInstantiateModel(TRUE, mid, MaxSize)
    \/ \E i \in OpIds, outcome \in {"model", "fail"} : InstantiateSettle(i, outcome)
    \/ \E mid \in ModelIds : Len(ops) < MaxCloseCmds /\ CallTrain(TRUE, mid, "s1", MaxSize)
    \/ \E i \in OpIds : TrainResume(i)
    \/ \E i \in OpIds, ok \in BOOLEAN : TrainSettle(i, ok)
    \/ \E mid \in ModelIds : Len(ops) < MaxCloseCmds /\ CallEvaluate(TRUE, mid, MaxSize)
    \/ \E i \in OpIds : Resume(i)
    \/ \E i \in OpIds, outcome \in {"ok", "badResult", "fail"} : EvaluateSettle(i, outcome)
    \/ \E i \in OpIds : UserNext(i, 1)
    \/ \E i \in OpIds : UserRead(i)
    \/ HostDelivers

SpecClose == Init /\ [][NextClose]_vars

\* C10: a next() that reads at least one element (k > 0) from a loader of a
\* create-state, instantiate, train or evaluate operation whose handler has
\* returned, the user's callback having returned or failed, is rejected with
\* OperationClosed and emits no requestData.
C10_ClosedAfterCompletion ==
    \A c \in 1..Len(calls) :
        (calls[c].late /\ calls[c].k > 0) =>
            /\ calls[c].status = "OperationClosed"
            /\ calls[c].requestId = -1

\* C38: a next() that is rejected with OperationClosed leaves the cursor where
\* the call found it.
C38_FailedNextKeepsPosition ==
    [][(/\ Len(calls') = Len(calls) + 1
        /\ calls'[Len(calls')].status = "OperationClosed") =>
          ops'[calls'[Len(calls')].op].position = calls'[Len(calls')].startIndex]_vars

\* --------------------------------------------------------- state providers

\* The keys the user's code uses for single items and short lists.
ProvideKeys == 1..MaxProvide

\* n one-byte items with the keys start, start + 1, ...
Run(start, n) == [x \in 1..n |-> Item(start + x - 1, x, 1)]

\* n one-byte items that all carry the same key.
Rep(key, n) == [x \in 1..n |-> Item(key, x, 1)]

\* The short lists: the empty list and every pair of one-byte items over
\* ProvideKeys, the pairs that repeat a key included.
ShortLists ==
    {<<>>} \cup {<<Item(k1, 1, 1), Item(k2, 2, 1)>> : k1 \in ProvideKeys, k2 \in ProvideKeys}

\* The long lists: around the key limit, with fresh keys or one key repeated.
LongLists ==
    {Run(MaxProvide + 1, KeyLimit - 1), Run(MaxProvide + 1, KeyLimit),
     Run(MaxProvide + 1, KeyLimit + 1), Rep(1, KeyLimit)}

\* One state provider over its lifetime: the host initialises the module and
\* sends a create-state command, or instantiates a model and sends a get-state
\* command; the user's callback provides keys during the operation and, having
\* kept the provider, after it; the callback returns or fails; the socket
\* flushes.
NextProvide ==
    \/ ops = <<>> /\ CallInitialize(FALSE, TRUE)
    \/ Len(ops) = 1 /\ CallCreateModelState(TRUE, 0)
    \/ \E i \in OpIds, ok \in BOOLEAN : CreateModelStateSettle(i, ok)
    \/ \E mid \in ModelIds : Len(ops) = 1 /\ CallInstantiateModel(TRUE, mid, 0)
    \/ \E i \in OpIds : InstantiateSettle(i, "model")
    \/ \E mid \in ModelIds : Len(ops) = 2 /\ ops[2].method = "instantiate"
                                /\ CallGetModelState(TRUE, mid)
    \/ \E i \in OpIds : Resume(i)
    \/ \E i \in OpIds, ok \in BOOLEAN : GetModelStateSettle(i, ok)
    \/ \E i \in OpIds, data \in ShortLists \cup LongLists : UserProvideAll(i, data)
    \/ \E i \in OpIds, key \in ProvideKeys : UserProvide(i, Item(key, 1, 1))
    \/ \E i \in OpIds : Flush(i)

SpecProvide == Init /\ [][NextProvide]_vars

\* The ops that own a state provider.
Providers == {i \in OpIds : ops[i].method \in {"createState", "getState"}}

\* The keys of the provide()/provideAll() calls 1..n of op i that succeeded.
KeysAccepted(i, n) ==
    UNION {Keys(ops[i].provides[c].data) :
              c \in {x \in 1..n : ops[i].provides[x].status = "ok"}}

\* C11: a provide/provideAll made on the provider of a create-state or get-state
\* operation after the handler has returned, the user's callback having returned
\* or failed, fails with OperationClosed and writes no provideStateData frame.
C11_ProviderClosedAfterCompletion ==
    \A i \in Providers : \A c \in 1..Len(ops[i].provides) :
        ops[i].provides[c].late =>
            /\ ops[i].provides[c].status = "OperationClosed"
            /\ ops[i].provides[c].frames = <<>>

\* C12: over the lifetime of one provider no key is provided twice: the keys of a
\* successful call are distinct from one another and from the keys of every
\* earlier successful call, so every key is in at most one frame, once; a call
\* repeating a key fails with DuplicateKey instead.
C12_NoKeyTwice ==
    \A i \in Providers : \A c \in 1..Len(ops[i].provides) :
        LET data == ops[i].provides[c].data
        IN  ops[i].provides[c].status = "ok" =>
                /\ Keys(data) \cap KeysAccepted(i, c - 1) = {}
                /\ \A m, n \in 1..Len(data) : m # n => data[m].key # data[n].key

\* C13: a provide(key, ...) whose key was accepted by an earlier call on the same
\* provider is rejected, whether or not the frames of the earlier call have been
\* flushed.
C13_SecondProvideRejected ==
    \A i \in Providers : \A c \in 1..Len(ops[i].provides) :
        LET call == ops[i].provides[c]
        IN  (call.api = "provide" /\ Keys(call.data) \cap KeysAccepted(i, c - 1) # {}) =>
                /\ call.status \in {"DuplicateKey", "OperationClosed"}
                /\ call.frames = <<>>

\* C13's case: provide() of a key rejected as a duplicate while a frame of the
\* call that had provided the key was still queued, unflushed.
C13_Witness ==
    \E i \in Providers : \E c \in 1..Len(ops[i].provides) :
        /\ ops[i].provides[c].api = "provide"
        /\ ops[i].provides[c].status = "DuplicateKey"
        /\ Keys(ops[i].provides[c].data) \cap KeysAccepted(i, c - 1) # {}
        /\ ops[i].provides[c].flushedBefore = 0
        /\ ops[i].provides[c].framesBefore >= 1
        /\ ops[i].flushed = 0

\* The number of keys in a sequence of frames.
RECURSIVE NumNames(_)
NumNames(frames) == IF frames = <<>> THEN 0 ELSE Len(Head(frames).names) + NumNames(Tail(frames))

\* The keys the calls 1..n on the provider of op i have emitted.
RECURSIVE Emitted(_, _)
Emitted(i, n) == IF n = 0 THEN 0 ELSE NumNames(ops[i].provides[n].frames) + Emitted(i, n - 1)

\* C14: the keys a provider has emitted number at most KeyLimit; a call that
\* would take the number past KeyLimit fails with LimitExceeded, unless one of
\* the checks made before the limit has failed it already.
C14_KeyLimit ==
    \A i \in Providers :
        /\ NumNames(ProvideFrames(i)) <= KeyLimit
        /\ \A c \in 1..Len(ops[i].provides) :
              Emitted(i, c - 1) + Len(ops[i].provides[c].data) > KeyLimit =>
                  ops[i].provides[c].status \in {"LimitExceeded", "DuplicateKey", "OperationClosed"}

\* ------------------------------------------------------ rejected provides

\* Lists with one item over the size limit next to an item that is fine.
LargeLists ==
    {<<Item(k, 1, 1), Item(MaxProvide + 1, 2, ByteLimit + 1)>> : k \in ProvideKeys}

\* One provider of a create-state operation, given lists that pass and lists
\* that fail each of the checks, during the operation and after it.
NextAtomic ==
    \/ ops = <<>> /\ CallInitialize(FALSE, TRUE)
    \/ Len(ops) = 1 /\ CallCreateModelState(TRUE, 0)
    \/ \E i \in OpIds, ok \in BOOLEAN : CreateModelStateSettle(i, ok)
    \/ \E i \in OpIds, data \in ShortLists \cup LongLists \cup LargeLists :
          UserProvideAll(i, data)
    \/ \E i \in OpIds, key \in ProvideKeys : UserProvide(i, Item(key, 1, 1))

SpecAtomic == Init /\ [][NextAtomic]_vars

\* C39: a provide/provideAll call that fails writes no provideStateData frame
\* and leaves the provider's set of provided keys as it was; a call is rejected
\* as a duplicate or for the key limit only on account of keys that earlier
\* successful calls provided, never on account of keys of a failed call.
C39_FailedProvideAtomic ==
    [][\A i \in Providers :
          /\ \A c \in 1..Len(ops[i].provides) :
                LET call == ops[i].provides[c]
                IN  /\ call.status = "DuplicateKey" =>
                          Keys(call.data) \cap KeysAccepted(i, c - 1) # {}
                    /\ call.status = "LimitExceeded" =>
                          Cardinality(KeysAccepted(i, c - 1)) + Len(call.data) > KeyLimit
          /\ (/\ Len(ops'[i].provides) = Len(ops[i].provides) + 1
              /\ ops'[i].provides[Len(ops'[i].provides)].status # "ok") =>
                /\ ops'[i].provides[Len(ops'[i].provides)].frames = <<>>
                /\ outbound' = outbound
                /\ ops'[i].providedNames = ops[i].providedNames]_vars

\* C39's case: a call that failed because one of its items was too large, and a
\* later call that provided a key of the failed call.
C39_Witness ==
    \E i \in Providers : \E c1, c2 \in 1..Len(ops[i].provides) :
        /\ c1 < c2
        /\ ops[i].provides[c1].status = "TooLarge"
        /\ ops[i].provides[c2].status = "ok"
        /\ Keys(ops[i].provides[c1].data) \cap Keys(ops[i].provides[c2].data) # {}

\* ------------------------------------------------------ packing of messages

\* The byteLengths the user's code passes: empty, tiny, half the limit, one
\* below the limit, the limit, one past it.
Sizes == {0, 1, ByteLimit \div 2, ByteLimit - 1, ByteLimit, ByteLimit + 1}

\* Every list of at most MaxItems items with distinct keys and sizes from Sizes.
PackLists ==
    UNION {{[x \in 1..n |-> Item(MaxItems + x, x, ss[x])] : ss \in [1..n -> Sizes]} :
              n \in 0..MaxItems}

\* One provideAll on a fresh provider: the host initialises the module and sends
\* a create-state command, whose callback passes one list to provideAll and
\* returns or fails.
NextPack ==
    \/ ops = <<>> /\ CallInitialize(FALSE, TRUE)
    \/ Len(ops) = 1 /\ CallCreateModelState(TRUE, 0)
    \/ \E i \in OpIds, ok \in BOOLEAN : CreateModelStateSettle(i, ok)
    \/ \E i \in OpIds, data \in PackLists : ops[i].provides = <<>> /\ UserProvideAll(i, data)

SpecPack == Init /\ [][NextPack]_vars

\* The bytes a frame carries.
RECURSIVE SumBytes(_)
SumBytes(blobs) == IF blobs = <<>> THEN 0 ELSE Head(blobs).byteLength + SumBytes(Tail(blobs))

\* C15: every provideStateData frame written by a successful provide/provideAll
\* carries at most ByteLimit bytes in all.
C15_PayloadWithinLimit ==
    \A i \in Providers : \A c \in 1..Len(ops[i].provides) :
        \A f \in 1..Len(ops[i].provides[c].frames) :
            SumBytes(ops[i].provides[c].frames[f].blobs) <= ByteLimit

\* C15's case: a list that did not fit one message, one of its messages holding
\* several items that fill it up to one byte below the limit.
C15_Witness ==
    \E i \in Providers : \E c \in 1..Len(ops[i].provides) :
        /\ ops[i].provides[c].status = "ok"
        /\ Len(ops[i].provides[c].frames) >= 2
        /\ \E f \in 1..Len(ops[i].provides[c].frames) :
              /\ Len(ops[i].provides[c].frames[f].blobs) >= 2
              /\ SumBytes(ops[i].provides[c].frames[f].blobs) = ByteLimit - 1

\* The keys, and the byte segments, of a sequence of frames, in writing order.
RECURSIVE AllNames(_)
AllNames(frames) == IF frames = <<>> THEN <<>> ELSE Head(frames).names \o AllNames(Tail(frames))

RECURSIVE AllBlobs(_)
AllBlobs(frames) == IF frames = <<>> THEN <<>> ELSE Head(frames).blobs \o AllBlobs(Tail(frames))

\* C16: the frames of a successful provideAll(items) carry, concatenated in
\* writing order, exactly the keys of items in input order, and the byte segments
\* of items in the same order, each frame with the command id and as many
\* segments as keys; they are what the call appended to the stream.
C16_OrderPreserved ==
    \A i \in Providers : \A c \in 1..Len(ops[i].provides) :
        LET call == ops[i].provides[c]
        IN  call.status = "ok" =>
                /\ AllNames(call.frames) = [n \in 1..Len(call.data) |-> call.data[n].key]
                /\ AllBlobs(call.frames) = [n \in 1..Len(call.data) |-> call.data[n].data]
                /\ \A f \in 1..Len(call.frames) :
                      /\ call.frames[f].commandId = i
                      /\ call.frames[f].kind = "provideStateData"
                      /\ Len(call.frames[f].names) = Len(call.frames[f].blobs)
                      /\ Len(call.frames[f].names) >= 1
                /\ SubSeq(ProvideFrames(i), call.framesBefore + 1,
                          call.framesBefore + Len(call.frames)) = call.frames

\* C16's case: a successful provideAll of MaxItems items split over several
\* frames, one of them carrying several items.
C16_Witness ==
    \E i \in Providers : \E c \in 1..Len(ops[i].provides) :
        /\ ops[i].provides[c].status = "ok"
        /\ Len(ops[i].provides[c].data) = MaxItems
        /\ Len(ops[i].provides[c].frames) >= 2
        /\ \E f \in 1..Len(ops[i].provides[c].frames) :
              Len(ops[i].provides[c].frames[f].names) >= 2

\* The bytes of items a..b of data, counted no further than one past ByteLimit.
RECURSIVE BytesUpTo(_, _, _)
BytesUpTo(data, a, b) ==
    IF a > b THEN 0
    ELSE LET rest == BytesUpTo(data, a + 1, b)
         IN  IF rest > ByteLimit \/ data[a].data.byteLength > ByteLimit - rest
             THEN ByteLimit + 1
             ELSE data[a].data.byteLength + rest

\* Cutting data after the positions in cuts gives consecutive groups none of
\* which exceeds ByteLimit.
ValidSplit(data, cuts) ==
    \A a \in {1} \cup {x + 1 : x \in cuts} :
        LET ends == {x \in cuts : x >= a}
            b == IF ends = {} THEN Len(data) ELSE CHOOSE x \in ends : \A y \in ends : x <= y
        IN  BytesUpTo(data, a, b) <= ByteLimit

\* The least number of messages an order-preserving split of data into groups of
\* at most ByteLimit bytes needs.
MinMessages(data) ==
    IF data = <<>> THEN 0
    ELSE LET sizes == {Cardinality(cuts) + 1 :
                          cuts \in {x \in SUBSET (1..(Len(data) - 1)) : ValidSplit(data, x)}}
         IN  CHOOSE m \in sizes : \A k \in sizes : m <= k

\* C17: a successful provideAll(items) writes as few frames as an order-preserving
\* split of items into groups of at most ByteLimit bytes allows.
C17_FewestMessages ==
    \A i \in Providers : \A c \in 1..Len(ops[i].provides) :
        ops[i].provides[c].status = "ok" =>
            Len(ops[i].provides[c].frames) = MinMessages(ops[i].provides[c].data)

\* ---------------------------------------------------- exceptions in handlers

\* Every handler with the user's callbacks returning, failing, and handing out
\* dispose hooks that throw.
NextExc ==
    \/ \E loaded \in BOOLEAN : Len(ops) < MaxCmds /\ CallInitialize(FALSE, loaded)
    \/ Len(ops) < MaxCmds /\ CallCreateModelState(TRUE, 0)
    \/ \E i \in OpIds, ok \in BOOLEAN : CreateModelStateSettle(i, ok)
    \/ \E mid \in ModelIds : Len(ops) < MaxCmds /\ CallInstantiateModel(TRUE, mid, 0)
    \/ \E i \in OpIds, outcome \in {"model", "modelBadHook", "fail"} : InstantiateSettle(i, outcome)
    \/ \E hasId \in BOOLEAN, mid \in ModelIds : Len(ops) < MaxCmds /\ CallDisposeInstantiatedModel(hasId, mid)
    \/ \E mid \in ModelIds : Len(ops) < MaxCmds /\ CallTrain(TRUE, mid, "s1", 0)
    \/ \E i \in OpIds : TrainResume(i)
    \/ \E i \in OpIds, ok \in BOOLEAN : TrainSettle(i, ok)
    \/ \E i \in OpIds : UserOnCancel(i)
    \/ \E hasId \in BOOLEAN : Len(ops) < MaxCmds /\ CallCancelTrain(hasId, "s1")
    \/ \E mid \in ModelIds : Len(ops) < MaxCmds /\ CallEvaluate(TRUE, mid, 0)
    \/ \E mid \in ModelIds : Len(ops) < MaxCmds /\ CallGetModelState(TRUE, mid)
    \/ \E i \in OpIds : Resume(i)
    \/ \E i \in OpIds, outcome \in {"ok", "fail"} : EvaluateSettle(i, outcome)
    \/ \E i \in OpIds, ok \in BOOLEAN : GetModelStateSettle(i, ok)

SpecExc == Init /\ [][NextExc]_vars

\* What a command's record holds when an exception was raised while it was
\* handled: one caught by the handler, a TypeError of this layer, one thrown by a
\* dispose hook.
Raised == {"exception", "TypeError", "hookError"}

\* C19: an exception raised while a command is handled is reported by a reply
\* with error code exception when the command carries an id, and never escapes
\* the dispatcher: with no id in play, no processMessage promise rejects.
C19_ExceptionsReported ==
    /\ \A i \in OpIds :
          (ops[i].hasId /\ ops[i].result \in Raised) =>
              \E f \in RepliesTo(i) : outbound[f].result = "exception"
    /\ (\A i \in OpIds : ~ops[i].hasId) => unhandled = 0

\* ------------------------------------------------ progress of operations

\* Train operations reading their params loader: the host initialises the module,
\* instantiates a model and sends a train command; the train code calls next()
\* and the host answers.
NextLive ==
    \/ ops = <<>> /\ CallInitialize(FALSE, TRUE)
    \/ \E mid \in ModelIds : Len(ops) = 1 /\ CallInstantiateModel(TRUE, mid, 0)
    \/ \E i \in OpIds, outcome \in {"model", "fail"} : InstantiateSettle(i, outcome)
    \/ \E mid \in ModelIds : Len(ops) = 2 /\ CallTrain(TRUE, mid, "s1", MaxSize)
    \/ \E i \in OpIds : TrainResume(i)
    \/ \E i \in OpIds, ok \in BOOLEAN : TrainSettle(i, ok)
    \/ \E i \in OpIds, amount \in 1..MaxSize : UserNext(i, amount)
    \/ HostDelivers

\* The host answers a requestData that is still pending.
HostAnswers ==
    \E f \in Requests :
        /\ outbound[f].requestId \in DOMAIN waiting
        /\ OnDataProvided(outbound[f].requestId,
                          Segments(outbound[f].startIndex, outbound[f].amount))

\* No next() call on the loader of op i is waiting for the host.
Answered(i) == \A c \in CallsOf(i) : calls[c].status # "pending"

\* The scheduling the progress of an operation rests on: the host answers every
\* pending request, a continuation whose awaited value is there runs, and a user
\* callback returns or fails once the next() calls it awaits have resolved.
Fairness ==
    /\ WF_vars(HostAnswers)
    /\ \A i \in 1..MaxCmds :
          /\ WF_vars(InstantiateSettle(i, "model") \/ InstantiateSettle(i, "fail"))
          /\ WF_vars(TrainResume(i))
          /\ WF_vars(Answered(i) /\ (TrainSettle(i, TRUE) \/ TrainSettle(i, FALSE)))

SpecLive == Init /\ [][NextLive]_vars /\ Fairness

\* C6: the read loop does not wait for handlers, so a next() of an operation in
\* flight is resolved by the DataDelivery that answers it, and a train operation
\* whose requests are answered completes and replies.
C6_ReadLoopNeverBlocks ==
    /\ \A c \in 1..MaxNext :
          (c <= Len(calls) /\ calls[c].status = "pending")
              ~> (c <= Len(calls) /\ calls[c].status = "resolved")
    /\ \A i \in 1..MaxCmds :
          (i \in OpIds /\ ops[i].method = "train" /\ ops[i].pc # "done")
              ~> (i \in OpIds /\ ops[i].pc = "done" /\ RepliesTo(i) # {})

\* C6's case: a train operation that completed and replied after a next() it
\* made while in flight was resolved by a DataDelivery decoded meanwhile.
C6_Witness ==
    \E i \in OpIds : \E c \in CallsOf(i) :
        /\ ops[i].method = "train" /\ ops[i].pc = "done" /\ RepliesTo(i) # {}
        /\ ~calls[c].late /\ calls[c].k > 0
        /\ calls[c].status = "resolved" /\ calls[c].got = Segments(calls[c].startIndex, calls[c].k)

====
